---- MODULE Spec2Model ----
(***************************************************************************)
(* Model of the orchestration core of lash (a fork of crush):              *)
(*   - the MCP client supervisor (internal/llm/agent/mcp-tools.go),        *)
(*   - the permission mediator as used by McpTool.Run, the UI update loop  *)
(*     and the application root's fan-in (internal/app, internal/tui).     *)
(*   - the host services of the application root: the OAuth store          *)
(*     (internal/auth), the config data file and the mode                  *)
(*     (internal/config), the input history and the non-interactive run.   *)
(***************************************************************************)
EXTENDS Integers, Sequences, FiniteSets, TLC

(***************************************************************************)
(* Bounds of the model.                                                    *)
(***************************************************************************)
\* number of tool invocations started in a run of the model
MaxRuns == 3
\* number of tool invocations started in a run of the permission specification
MaxPermRuns == 2
\* number of tool invocations started in a run of the retry specification
MaxRetryRuns == 2
\* number of events of all topics in a run of the shutdown of the fan-in
MaxDrainEvents == 3
\* number of host signals delivered to the program
MaxSignals == 1
\* bytes the shell writes in a run of the specification of the goroutines' end
MaxExitBytes == 3
\* number of model selections handled, and of Runs of the agent active at a time
MaxSelects == 3
MaxActive == 1
\* capacity of the unified UI channel app.events in the model
UiCap == 2
\* capacity of a broker subscriber channel in the model
SubCap == 1
\* number of events published on a topic in a run of the model
MaxEvents == 4
\* number of bytes the shell writes to its terminal in a run of the model
MaxBytes == 8
\* size of the read buffer of pumpOutput in the model (4096 in the code)
ChunkMax == 2
\* length above which the terminal cuts its buffer in the model (1,000,000 in the code)
BufLimit == 4
\* capacity of the output channel of a PTY shell in the model (64 in the code)
OutCap == 2
\* seconds the clock advances in a run of the model
MaxTime == 3
\* number of AccessToken calls in a run of the model
MaxCalls == 3
\* number of AppendInputHistory calls, and of restarts, in a run of the model
MaxAppends == 3
MaxBoots == 2
\* number of SetConfigField calls in a run of the model
MaxSets == 3
\* bytes of assistant text, and assistant messages, in a non-interactive run of the model
MaxText == 3
MaxMsgs == 2
\* capacity of the message subscription of RunNonInteractive in the model
EvCap == 2

(***************************************************************************)
(* Universe.                                                               *)
(***************************************************************************)
\* configured MCP servers (cfg.MCP)
Servers == {"s1", "s2"}
\* goroutines of the agent that run tools
Callers == {"c1", "c2"}
\* threads that call updateMCPState: doGetMCPTools, its goroutines, the callers
\* two of the topics setupEvents subscribes to
Topics == {"messages", "mcp"}
\* the LSP watcher tasks and the LSP clients of the application
Watchers == {"w1", "w2"}
LspClients == {"go", "ts"}
\* the goroutines that call Close on the PTY shell
Closers == {"k1", "k2"}
\* the errors ptmx.Read ends with: end of file, the I/O error a PTY master gives
\* once the slave side is gone, the error of a read on a closed file
ReadEOF == "EOF"
ReadEIO == "input/output error"
ReadClosed == "file already closed"
\* errors.Is(err, io.EOF)
IsEOF(e) == e = ReadEOF
\* io.ErrClosedPipe
ErrClosedPipe == "io: read/write on closed pipe"
Threads == {"main"} \cup Servers \cup Callers
\* the providers with an entry in the OAuth store
Providers == {"anthropic", "openai", "copilot"}
\* the goroutines that use the OAuth store: the caller of AccessToken, and two
\* commands that call auth.Set
AuthThreads == {"tok", "w1", "w2"}
\* the expires_in values (seconds) the token endpoint answers; a reply without
\* the field decodes to 0
ExpiresIn == {-1, 0, 1, 2}
\* bytes of the input history: a space, a line feed, the quote and the backslash
\* of JSON, letters
SP == " "
LF == "LF"
QUOTE == "quote"
BSLASH == "backslash"
\* the prompts a user submits: empty, plain, with a leading space, of two lines
\* "no value" for a path of the config data file
Missing == "missing"
\* paths of the config data file that hold a scalar, and the keys SetConfigField is
\* called with: these paths, and the path of a provider's whole object
LeafPaths ==
    {<<"lash", "mode">>, <<"lash", "yolo">>,
     <<"providers", "anthropic", "api_key">>, <<"providers", "anthropic", "type">>}
ConfigKeys == LeafPaths \cup {<<"providers", "anthropic">>}
\* the values a key is set to: a scalar, or for an object its scalar per sub-path
ValuesOf(k) ==
    IF k = <<"lash", "mode">> THEN {"Shell", "Agent"}
    ELSE IF k = <<"lash", "yolo">> THEN {"true", "false"}
    ELSE IF k = <<"providers", "anthropic", "api_key">> THEN {"k1", "k2"}
    ELSE IF k = <<"providers", "anthropic", "type">> THEN {"oauth"}
    ELSE {[q \in {<<"api_key">>, <<"type">>} |-> IF q = <<"type">> THEN "oauth" ELSE a] :
             a \in {"k1", Missing}}
\* the modes, and the values of lash.mode a config data file can hold: the ones
\* SetActiveMode writes, blank ones, and one written by hand
\* SelectedModelTypeLarge and SelectedModelTypeSmall, and the models to select
ModelTypes == {"large", "small"}
ModelNames == {"m1", "m2"}
Modes == {"Shell", "Agent", "Auto"}
PersistedModes == Modes \cup {"", " ", "shell"}
Entries == {<<>>, <<"a">>, <<"b">>, <<SP, "a">>, <<"a", LF, "b">>}

\* "no record" for an MCPState, and the nil of a client, mutex or event reference
None == "none"
Nil == <<>>

\* b.Info().Name of the MCP tool wrapper of server s: "mcp_<server>_<tool>"
McpToolName(s) == IF s = "s1" THEN "mcp_s1_t" ELSE "mcp_s2_t"
\* allow-list entries: <<tool, "">> is the entry "tool", <<tool, a>> is "tool:a"
ToolKey(t) == <<t, "">>
CommandKey(t, a) == <<t, a>>

\* MCPState (the iota constants), plus None for "no record yet"
MCPStateDisabled == "disabled"
MCPStateStarting == "starting"
MCPStateConnected == "connected"
MCPStateError == "error"

(***************************************************************************)
(* Errors are modelled by their text, a sequence of fragments, because     *)
(* isTransientTransportError decides on the text.                          *)
(***************************************************************************)
ErrEOF == <<"EOF">>
ErrDeadline == <<"context deadline exceeded">>
ErrToolFailed == <<"tool failed">>
\* the errors CallTool returns in the model, and those of create/Start/Initialize
CallErrs == {ErrEOF, ErrToolFailed}
StartErrs == {ErrDeadline}
NoErr == <<>>

\* strings.ToLower on the fragments the model uses
ToLower(f) == IF f = "EOF" THEN "eof" ELSE f

\* strings.Contains(e, pat) on fragment sequences
Contains(e, pat) == \E i \in 1..Len(e) : ToLower(e[i]) = pat

TransientPatterns ==
    {"broken pipe", "connection reset", "eof",
     "use of closed network connection", "transport error"}

isTransientAnyError(err) == err # NoErr

isTransientTransportError(err) ==
    /\ err # NoErr
    /\ \E p \in TransientPatterns : Contains(err, p)

VARIABLES
    \* ---- configuration
    cfgDisabled,        \* servers with m.Disabled
    cfgLashYolo,        \* lash.yolo in the config data file
    cfgConfirmAgentExec,\* cfg.Lash.Safety.ConfirmAgentExec, a *bool: <<>> is nil, <<b>> points to b
    \* ---- package state of mcp-tools.go
    mcpClients,         \* name -> client or Nil
    mcpStates,          \* name -> MCPState or None
    mcpClientConfigs,   \* names with a saved config
    mcpClientLocks,     \* name -> mutex or Nil
    lockHeld,           \* mutexes that are locked
    live,               \* clients created and not yet closed
    pub,                \* per thread: event handed to mcpBroker.Publish, not yet published
    \* ---- doGetMCPTools
    loopTodo,           \* servers the range loop has not visited yet
    gpc,                \* per server: position of its startup goroutine
    gclient,            \* per server: the client of the startup goroutine
    glisted,            \* per server: ListTools of startup succeeded
    gfailed,            \* per server: a step of startup failed (history)
    startupDone,        \* doGetMCPTools has returned
    \* ---- tool invocations
    nRuns,              \* invocations started so far
    pc,                 \* per caller: position
    result,             \* per caller: outcome of its last invocation
    kind,               \* per caller: "mcp" (McpTool.Run) or "tool" (another tool)
    reqNo,              \* per caller: number that makes the id of its request unique
    sess,               \* per caller: session id of the call
    tool,               \* per caller: tool name of the request
    act,                \* per caller: action of the request
    srv,                \* per caller: server name of the invocation
    cl,                 \* per caller: client reference held
    myLock,             \* per caller: mutex obtained from getClientLock
    phase,              \* per caller: 1 = in or after the lazy restart, 2 = the restart after an error
    err,                \* per caller: the error value held
    nCalls,             \* per caller: CallTool attempts of the invocation (history)
    nRestarts,          \* per caller: restartMCPClient calls of the invocation (history)
    startedIn,          \* per caller: recorded server state when runTool began (history)
    emitted,            \* per caller: states the invocation published on the MCP topic (history)
    verdict,            \* per caller: what Request returned to the invocation (history)
    \* ---- permission mediator
    allowedTools,       \* allow-list: entries "tool" and "tool:action"
    skip,               \* skip-requests flag
    autoApproveSessions,
    sessionPermissions, \* persistent grants <<session, tool, action>>
    pendingRequests,    \* ids of the requests waiting for a verdict
    respCh,             \* per caller: its one-shot response channel
    resolvedBy,         \* per caller: who resolved the request of the invocation (history)
    published,          \* per caller: request events the invocation published (history)
    \* ---- fan-in and UI
    subCh,              \* subscriber channel of the permissions topic
    events,             \* app.events, the unified UI channel
    dialogs,            \* open permission dialogs
    \* ---- the MCP topic
    mcpClosed,          \* CloseMCPClients has run: mcpBroker is shut down
    lastEvent,          \* per server: state of the last event the topic's subscribers got
    \* ---- the fan-in goroutines of setupEvents, one per topic
    topicCh,            \* per topic: the subscriber channel of its forwarder
    msg,                \* per topic: the message the forwarder holds, or Nil
    nPublished,         \* per topic: events published so far; the n-th event is <<topic, n>>
    uiSeen,             \* per topic: number of the last event the UI took (history)
    nDropped,           \* per topic: messages the forwarder dropped (history)
    \* ---- the application root: cleanup functions and Shutdown
    coderAgent,         \* app.CoderAgent != nil
    tuiStarted,         \* App.Subscribe has been entered
    cleanupFuncs,       \* app.cleanupFuncs, by name: "events", "mcp", "tui"
    spc,                \* position of App.Shutdown
    agentCancelled,     \* CoderAgent.CancelAll() has been called
    wCancelled,         \* LSP watchers whose cancel function was called
    wExited,            \* LSP watchers whose task has exited
    lspDown,            \* LSP clients whose Shutdown was called
    invoked,            \* the cleanup functions invoked, in order (history)
    eventsCancelled,    \* cancel() of app.eventsCtx was called
    fwdRunning,         \* the fan-in goroutines of serviceEventsWG are running
    tuiCancelled,       \* tuiCancel() was called
    tuiRunning,         \* the loop of App.Subscribe is running
    \* ---- a PTY shell: the process and the PTY
    procExited,         \* the shell process has exited
    nProduced,          \* bytes the shell has written to its terminal; byte i is the number i
    started,            \* s.started
    ptmxSet,            \* s.ptmx != nil
    fdOpen,             \* the PTY master file is open
    nFdClose,           \* calls of ptmx.Close() so far (history)
    hupSent,            \* Close has sent SIGHUP (history)
    graceEnded,         \* the select of Close has returned (history)
    killIssued,         \* Close has called Process.Kill (history)
    \* ---- pumpOutput
    ppc,                \* position of pumpOutput
    chunk,              \* the chunk pumpOutput holds
    nRead,              \* bytes read from the PTY so far
    outputCh,           \* s.outputCh
    outClosed,          \* s.outputCh is closed
    \* ---- wait, Done() and its consumer
    wpc,                \* position of wait
    doneCh,             \* s.doneCh
    doneClosed,         \* s.doneCh is closed
    doneGot,            \* exit errors the consumer of Done() received
    doneSawClosed,      \* the consumer of Done() observed the stream closed
    \* ---- callers of Close and Write
    kpc,                \* per caller of Close: position
    kptmx,              \* per caller of Close: its local ptmx != nil
    writeResult,        \* last Write: <<outcome, the process had exited>>, or Nil
    \* ---- the Terminal component
    tpc,                \* "listen": a listen command waits; "msg": its message is on the way
    tmsg,               \* the message on the way to Update
    buffer,             \* t.buffer
    tClosed,            \* t.closed
    nReceived,          \* bytes received from Output() so far (history)
    \* ---- the OAuth store (internal/auth)
    authFile,           \* auth.json: [valid |-> it parses as JSON, m |-> provider -> OauthInfo]
    now,                \* time.Now(), in seconds
    apc,                \* per goroutine using the store: position
    all,                \* per goroutine: the local map of Set
    setArg,             \* per goroutine: the arguments of Set, [p |-> providerID, info |-> OauthInfo]
    ret,                \* what the last AccessToken call returned, and when (history)
    sent,               \* refresh requests sent so far (history)
    nAccess,            \* AccessToken calls so far (history)
    lastRefresh,        \* the record the last completed refresh built (history)
    readerSaw,          \* the map the last Get of a concurrent reader read (history)
    \* ---- the input history (App.InputHistory and input_history.jsonl)
    InputHistory,       \* app.InputHistory
    histFile,           \* the bytes of input_history.jsonl (<<>>: no file)
    submitted,          \* the entries AppendInputHistory was called with, in order (history)
    lastAppend,         \* the last AppendInputHistory call: <<entry, it returned nil>> (history)
    nBoots,             \* restarts so far (history)
    \* ---- the config data file (c.dataConfigDir)
    cfgFile,            \* [exists |-> the file exists, doc |-> leaf path -> scalar or Missing]
    lastSet,            \* the last SetConfigField call: <<key, value, it returned nil>> (history)
    nSets,              \* SetConfigField calls so far (history)
    \* ---- the mode
    lashMode,           \* c.Lash.Mode ("": unset)
    activeMode,         \* appModel.activeMode
    appMode,            \* app.Mode
    uiInit,             \* appModel.Init has run
    \* ---- a non-interactive run
    msgs,               \* the assistant messages of the session: their contents, in order
    agentDone,          \* the agent has sent its result
    messageEvents,      \* the subscription to message events: contents of the updated messages
    done,               \* the channel of CoderAgent.Run: <<>> or <<result>>
    npc,                \* RunNonInteractive: "loop", "returned", "error", "panic"
    readBts,            \* readBts
    stdout,             \* the bytes printed so far (line ends left out)
    final,              \* the content of the result's message, once received (history)
    \* ---- the fan-in goroutines, one by one
    fwdExited,          \* topics whose forwarder goroutine has returned (wg.Done)
    \* ---- forwardSignals of a PTY shell
    fpc,                \* forwardSignals: "range" (receiving from sigCh), "returned"
    nSignals,           \* host signals (SIGHUP, SIGTERM) passed on to the shell
    \* ---- NewPTYShellContext
    ctxDone,            \* the caller's context is done
    goPc,               \* the goroutine that calls NewPTYShell: "start", "send", "returned"
    goRes,              \* its result{s, err}: Nil, <<"shell">> or <<"error">>
    resultCh,           \* ch, with room for one result
    cret,               \* what NewPTYShellContext returned: Nil, <<"shell">>, <<"error">>, <<"ctx">>
    spawned,            \* ptypkg.Start has started a shell process for this call
    \* ---- the selection of a model
    cfgModels,          \* Config.Models: the preferred model of each model type
    fileModels,         \* the models.<type> entries of the config data file
    agentModel,         \* the models the coder agent is bound to, Nil with no agent
    activeRequests,     \* the Runs of the coder agent that are active
    selReport,          \* the status the last ModelSelectedMsg reported
    nSelects            \* ModelSelectedMsg handled so far

tblVars == <<mcpClients, mcpClientConfigs, mcpClientLocks, lockHeld, live>>
topicVars == <<mcpStates, pub>>
startVars == <<cfgDisabled, loopTodo, gpc, gclient, glisted, gfailed, startupDone>>
mcpVars == <<tblVars, topicVars, startVars>>
\* the locals of an invocation, and what is remembered of it
localVars == <<kind, reqNo, sess, tool, act, srv, cl, myLock>>
histVars == <<phase, err, nCalls, nRestarts, startedIn, emitted, verdict>>
callVars == <<nRuns, pc, result, localVars, histVars>>
medVars == <<allowedTools, skip, autoApproveSessions, sessionPermissions>>
reqVars == <<pendingRequests, respCh, resolvedBy, published>>
permVars == <<medVars, reqVars>>
cfgVars == <<cfgLashYolo, cfgConfirmAgentExec>>
uiVars == <<subCh, events, dialogs>>
obsVars == <<mcpClosed, lastEvent>>
fanVars == <<topicCh, msg, nPublished, uiSeen, nDropped>>
regVars == <<coderAgent, tuiStarted, cleanupFuncs>>
taskVars == <<wCancelled, wExited, eventsCancelled, fwdRunning, tuiCancelled, tuiRunning>>
shutVars == <<regVars, spc, agentCancelled, lspDown, invoked, taskVars>>
procVars == <<procExited, nProduced>>
fdVars == <<started, ptmxSet, fdOpen, nFdClose>>
closeHist == <<hupSent, graceEnded, killIssued>>
pumpVars == <<ppc, chunk, nRead, outputCh, outClosed>>
waitVars == <<wpc, doneCh, doneClosed>>
consVars == <<doneGot, doneSawClosed, writeResult>>
closerVars == <<kpc, kptmx>>
termVars == <<tpc, tmsg, buffer, tClosed, nReceived>>
ptyVars == <<procVars, fdVars, closeHist, pumpVars, waitVars, consVars, closerVars, termVars>>
authVars == <<authFile, now, apc, all, setArg, ret, sent, nAccess, lastRefresh, readerSaw>>
inputVars == <<InputHistory, histFile, submitted, lastAppend, nBoots>>
confVars == <<cfgFile, lastSet, nSets>>
modeVars == <<lashMode, activeMode, appMode, uiInit>>
niVars == <<msgs, agentDone, messageEvents, done, npc, readBts, stdout, final>>
drainVars == <<fwdExited>>
sigVars == <<fpc, nSignals>>
newVars == <<ctxDone, goPc, goRes, resultCh, cret, spawned>>
selVars == <<cfgModels, fileModels, agentModel, activeRequests, selReport, nSelects>>
host == <<authVars, inputVars, confVars, modeVars, niVars, drainVars, sigVars, newVars, selVars>>
ext == <<obsVars, fanVars, shutVars, ptyVars, host>>
\* the state the supervisor, the mediator and the configuration make up
core == <<mcpVars, callVars, permVars, cfgVars>>
\* what the fan-in of the topics leaves alone
fanRest == <<core, subCh, dialogs, obsVars, shutVars, ptyVars, host>>
\* what the application root leaves alone
appRest == <<core, uiVars, obsVars, fanVars, ptyVars, host>>
\* what a PTY shell and its terminal leave alone
ptyRest == <<core, uiVars, obsVars, fanVars, shutVars, host>>
vars == <<mcpVars, callVars, permVars, cfgVars, uiVars, ext>>
\* everything but the state of the host services (stores, clock, console, mode)
agentSide == <<core, uiVars, obsVars, fanVars, shutVars, ptyVars>>
authRest == <<agentSide, inputVars, confVars, modeVars, niVars, drainVars, sigVars, newVars, selVars>>
inputRest == <<agentSide, authVars, confVars, modeVars, niVars, drainVars, sigVars, newVars, selVars>>
confRest == <<agentSide, authVars, inputVars, modeVars, niVars, drainVars, sigVars, newVars, selVars>>
modeRest == <<agentSide, authVars, inputVars, niVars, drainVars, sigVars, newVars, selVars>>
niRest == <<agentSide, authVars, inputVars, confVars, modeVars, drainVars, sigVars, newVars, selVars>>
others == <<permVars, cfgVars, uiVars>>

(***************************************************************************)
(* updateMCPState: mcpStates.Set, then mcpBroker.Publish.  The two are     *)
(* separate operations; thread t holds the event in pub[t] in between.     *)
(***************************************************************************)
updateMCPState(t, name, state) ==
    /\ mcpStates' = [mcpStates EXCEPT ![name] = state]
    /\ pub' = [pub EXCEPT ![t] = <<name, state>>]

\* mcpBroker.Publish of the event thread t holds: it goes to the subscribers
\* unless the broker was shut down (a publish on a shut-down broker is rejected)
Publish(t) ==
    /\ pub[t] # Nil
    /\ pub' = [pub EXCEPT ![t] = Nil]
    /\ emitted' = [c \in Callers |-> IF c = t /\ ~mcpClosed
                                              THEN Append(emitted[c], pub[t][2])
                                              ELSE emitted[c]]
    /\ lastEvent' = IF mcpClosed THEN lastEvent
                                 ELSE [lastEvent EXCEPT ![pub[t][1]] = pub[t][2]]
    /\ UNCHANGED <<mcpClosed, mcpStates, tblVars, startVars, nRuns, pc, result, localVars,
                   phase, err, nCalls, nRestarts, startedIn, verdict, others,
                   fanVars, shutVars, ptyVars, host>>

\* a thread is inside updateMCPState until its event is published
Free(t) == pub[t] = Nil

\* a client is an object; its identity is <<server, n>> with n not in use by any
\* client that is live or still referenced
Referenced ==
    live \cup {mcpClients[s] : s \in Servers} \cup {gclient[s] : s \in Servers}
         \cup {cl[c] : c \in Callers}
ClientIds == 1..(2 + 2 * MaxRuns * Cardinality(Callers))
NewClient(s) == <<s, CHOOSE n \in ClientIds :
                        /\ <<s, n>> \notin Referenced
                        /\ \A m \in 1..(n - 1) : <<s, m>> \in Referenced>>

(***************************************************************************)
(* doGetMCPTools                                                           *)
(***************************************************************************)
\* one iteration of `for name, m := range cfg.MCP` (map order: any order)
LoopVisit(s) ==
    /\ Free("main")
    /\ s \in loopTodo
    /\ loopTodo' = loopTodo \ {s}
    /\ IF s \in cfgDisabled
          THEN /\ updateMCPState("main", s, MCPStateDisabled)
               /\ UNCHANGED gpc
          ELSE /\ updateMCPState("main", s, MCPStateStarting)
               /\ gpc' = [gpc EXCEPT ![s] = "create"]
    /\ UNCHANGED <<ext, tblVars, cfgDisabled, gclient, glisted, gfailed,
                   startupDone, callVars, others>>

\* the goroutine of s runs only once `go func` was reached, after Starting was published
Spawned(s) == IF pub["main"] = Nil THEN TRUE ELSE pub["main"][1] # s

\* mcpClientConfigs.Set; createMcpClient
GCreate(s) ==
    /\ gpc[s] = "create" /\ Spawned(s) /\ Free(s)
    /\ mcpClientConfigs' = mcpClientConfigs \cup {s}
    /\ \/ /\ gclient' = [gclient EXCEPT ![s] = NewClient(s)]
          /\ live' = live \cup {NewClient(s)}
          /\ gpc' = [gpc EXCEPT ![s] = "start"]
          /\ UNCHANGED <<ext, topicVars, gfailed>>
       \/ /\ updateMCPState(s, s, MCPStateError)
          /\ gpc' = [gpc EXCEPT ![s] = "returned"]
          /\ gfailed' = [gfailed EXCEPT ![s] = TRUE]
          /\ UNCHANGED <<ext, gclient, live>>
    /\ UNCHANGED <<ext, mcpClients, mcpClientLocks, lockHeld, cfgDisabled,
                   loopTodo, glisted, startupDone, callVars, others>>

\* c.Start(ctx) and c.Initialize(ctx, ...): success, or an error (also the timeout)
GStartInit(s) ==
    /\ gpc[s] \in {"start", "init"} /\ Free(s)
    /\ \/ /\ gpc' = [gpc EXCEPT ![s] = IF @ = "start" THEN "init" ELSE "set"]
          /\ UNCHANGED <<ext, topicVars, live, gfailed>>
       \/ /\ updateMCPState(s, s, MCPStateError)
          /\ live' = live \ {gclient[s]}
          /\ gpc' = [gpc EXCEPT ![s] = "returned"]
          /\ gfailed' = [gfailed EXCEPT ![s] = TRUE]
    /\ UNCHANGED <<ext, mcpClients, mcpClientConfigs, mcpClientLocks, lockHeld,
                   cfgDisabled, loopTodo, gclient, glisted, startupDone, callVars, others>>

\* mcpClients.Set(name, c)
GSet(s) ==
    /\ gpc[s] = "set" /\ Free(s)
    /\ mcpClients' = [mcpClients EXCEPT ![s] = gclient[s]]
    /\ gpc' = [gpc EXCEPT ![s] = "list"]
    /\ UNCHANGED <<ext, mcpClientConfigs, mcpClientLocks, lockHeld, live,
                   topicVars, cfgDisabled, loopTodo, gclient, glisted, gfailed,
                   startupDone, callVars, others>>

\* getTools: c.ListTools; on error updateMCPState(Error) ...
getTools(s) ==
    /\ gpc[s] = "list" /\ Free(s)
    /\ \/ /\ glisted' = [glisted EXCEPT ![s] = TRUE]
          /\ gpc' = [gpc EXCEPT ![s] = "connected"]
          /\ UNCHANGED <<ext, topicVars, gfailed>>
       \/ /\ updateMCPState(s, s, MCPStateError)
          /\ gpc' = [gpc EXCEPT ![s] = "listfailed"]
          /\ gfailed' = [gfailed EXCEPT ![s] = TRUE]
          /\ UNCHANGED glisted
    /\ UNCHANGED <<ext, tblVars, cfgDisabled, loopTodo, gclient, startupDone, callVars, others>>

\* ... then c.Close(), mcpClients.Del(name), return nil
getToolsCleanup(s) ==
    /\ gpc[s] = "listfailed" /\ Free(s)
    /\ live' = live \ {gclient[s]}
    /\ mcpClients' = [mcpClients EXCEPT ![s] = Nil]
    /\ gpc' = [gpc EXCEPT ![s] = "connected"]
    /\ UNCHANGED <<ext, mcpClientConfigs, mcpClientLocks, lockHeld, topicVars,
                   cfgDisabled, loopTodo, gclient, glisted, gfailed, startupDone,
                   callVars, others>>

\* updateMCPState(name, MCPStateConnected, nil, c, len(tools)) after getTools returned
GConnected(s) ==
    /\ gpc[s] = "connected" /\ Free(s)
    /\ updateMCPState(s, s, MCPStateConnected)
    /\ gpc' = [gpc EXCEPT ![s] = "returned"]
    /\ UNCHANGED <<ext, tblVars, cfgDisabled, loopTodo, gclient, glisted, gfailed,
                   startupDone, callVars, others>>

\* a panic inside Start, Initialize or ListTools: the deferred function runs
\* wg.Done() first ...
GPanic(s) ==
    /\ gpc[s] \in {"start", "init", "list"} /\ Free(s)
    /\ gpc' = [gpc EXCEPT ![s] = "panicked"]
    /\ gfailed' = [gfailed EXCEPT ![s] = TRUE]
    /\ UNCHANGED <<ext, tblVars, topicVars, cfgDisabled, loopTodo, gclient, glisted,
                   startupDone, callVars, others>>

\* ... and then recover() and updateMCPState(name, MCPStateError, err, nil, 0)
GRecover(s) ==
    /\ gpc[s] = "panicked" /\ Free(s)
    /\ updateMCPState(s, s, MCPStateError)
    /\ gpc' = [gpc EXCEPT ![s] = "recovered"]
    /\ UNCHANGED <<ext, tblVars, cfgDisabled, loopTodo, gclient, glisted, gfailed,
                   startupDone, callVars, others>>

\* wg.Done() of the goroutine of s has run
WgDone(s) ==
    \/ gpc[s] \in {"panicked", "recovered"}
    \/ gpc[s] = "returned" /\ Free(s)

\* wg.Wait() returns and doGetMCPTools returns the collected tools
StartupReturn ==
    /\ ~startupDone
    /\ loopTodo = {} /\ Free("main")
    /\ \A s \in Servers \ cfgDisabled : WgDone(s)
    /\ startupDone' = TRUE
    /\ UNCHANGED <<ext, tblVars, topicVars, cfgDisabled, loopTodo, gpc, gclient, glisted,
                   gfailed, callVars, others>>

\* McpTool wrappers exist for the servers whose tool listing succeeded
HasTools(s) == startupDone /\ glisted[s]

(***************************************************************************)
(* Tool invocations: entry and exit.                                       *)
(***************************************************************************)
\* the caller reaches a return statement with outcome r
Finish(c, r) ==
    /\ pc' = [pc EXCEPT ![c] = "return"]
    /\ result' = [result EXCEPT ![c] = r]
    /\ UNCHANGED localVars

\* the caller moves on to position p
Goto(c, p) ==
    /\ pc' = [pc EXCEPT ![c] = p]
    /\ UNCHANGED result

\* the invocation returns to the agent: its locals and what was remembered of it are gone
Return(c) ==
    /\ pc[c] = "return"
    /\ pc' = [pc EXCEPT ![c] = "idle"]
    /\ result' = [result EXCEPT ![c] = "none"]
    /\ kind' = [kind EXCEPT ![c] = "none"]
    /\ reqNo' = [reqNo EXCEPT ![c] = 0]
    /\ sess' = [sess EXCEPT ![c] = ""]
    /\ tool' = [tool EXCEPT ![c] = ""]
    /\ act' = [act EXCEPT ![c] = ""]
    /\ srv' = [srv EXCEPT ![c] = ""]
    /\ cl' = [cl EXCEPT ![c] = Nil]
    /\ myLock' = [myLock EXCEPT ![c] = Nil]
    /\ phase' = [phase EXCEPT ![c] = 0]
    /\ err' = [err EXCEPT ![c] = NoErr]
    /\ nCalls' = [nCalls EXCEPT ![c] = 0]
    /\ nRestarts' = [nRestarts EXCEPT ![c] = 0]
    /\ startedIn' = [startedIn EXCEPT ![c] = None]
    /\ emitted' = [emitted EXCEPT ![c] = <<>>]
    /\ verdict' = [verdict EXCEPT ![c] = None]
    /\ resolvedBy' = [resolvedBy EXCEPT ![c] = <<>>]
    /\ published' = [published EXCEPT ![c] = 0]
    /\ UNCHANGED <<ext, mcpVars, nRuns, medVars, pendingRequests, respCh, cfgVars, uiVars>>

\* the agent starts a tool invocation on goroutine c
Enter(c) ==
    /\ pc[c] = "idle" /\ nRuns < MaxRuns
    /\ nRuns' = nRuns + 1
    /\ UNCHANGED <<ext, histVars, resolvedBy, published>>

\* request ids are unique; an id that no event, dialog or pending entry refers to
\* any more is as good as a fresh one
UsedIds ==
    {subCh[i].id : i \in 1..Len(subCh)} \cup {events[i].id : i \in 1..Len(events)}
        \cup {d.id : d \in dialogs} \cup pendingRequests
NewReqNo(c) == CHOOSE n \in 1..(MaxRuns + 1) :
                  /\ <<c, n>> \notin UsedIds
                  /\ \A m \in 1..(n - 1) : <<c, m>> \in UsedIds

\* the request the tool builds (permission.CreatePermissionRequest)
SetRequest(c, k, s, sessionID, t, a) ==
    /\ kind' = [kind EXCEPT ![c] = k]
    /\ reqNo' = [reqNo EXCEPT ![c] = NewReqNo(c)]
    /\ sess' = [sess EXCEPT ![c] = sessionID]
    /\ tool' = [tool EXCEPT ![c] = t]
    /\ act' = [act EXCEPT ![c] = a]
    /\ srv' = [srv EXCEPT ![c] = s]
    /\ UNCHANGED <<ext, cl, myLock>>

\* McpTool.Run, lines 237-252: the context values, then permissions.Request
McpToolRun(c, s, sessionID, messageID) ==
    /\ Enter(c)
    /\ HasTools(s)
    /\ IF sessionID = "" \/ messageID = ""
          THEN Finish(c, "ids_required")
          ELSE /\ SetRequest(c, "mcp", s, sessionID, McpToolName(s), "execute")
               /\ Goto(c, "request")
    /\ UNCHANGED <<ext, mcpVars, medVars, pendingRequests, respCh, cfgVars, uiVars>>

\* another tool of the agent asks for permission for (session, tool, action)
ToolRun(c, sessionID, t, a) ==
    /\ Enter(c)
    /\ SetRequest(c, "tool", "", sessionID, t, a)
    /\ Goto(c, "request")
    /\ UNCHANGED <<ext, mcpVars, medVars, pendingRequests, respCh, cfgVars, uiVars>>

(***************************************************************************)
(* Permission mediator (permission.Service).                               *)
(***************************************************************************)
ReqOf(c) == [id |-> <<c, reqNo[c]>>, session |-> sess[c], tool |-> tool[c],
             action |-> act[c]]

\* steps 1-4 of Request: the cases that return true without an event
ShortCircuitNoGrants(s, t, a) ==
    \/ ToolKey(t) \in allowedTools \/ CommandKey(t, a) \in allowedTools
    \/ skip
    \/ s \in autoApproveSessions

ShortCircuit(s, t, a) ==
    \/ ToolKey(t) \in allowedTools \/ CommandKey(t, a) \in allowedTools
    \/ skip
    \/ s \in autoApproveSessions
    \/ <<s, t, a>> \in sessionPermissions

ResolveKeepPending(ids, v, by) ==
    /\ pendingRequests' = pendingRequests
    /\ respCh' = [c \in Callers |->
                    IF \E i \in ids \cap pendingRequests : i[1] = c
                       THEN Append(respCh[c], v) ELSE respCh[c]]
    /\ resolvedBy' = [c \in Callers |->
                        IF \E i \in ids \cap pendingRequests : i[1] = c
                           THEN Append(resolvedBy[c], by) ELSE resolvedBy[c]]

\* the verdict v reaches the response channel of each pending request in ids, once
Resolve(ids, v, by) ==
    /\ pendingRequests' = pendingRequests \ ids
    /\ respCh' = [c \in Callers |->
                    IF \E i \in ids \cap pendingRequests : i[1] = c
                       THEN Append(respCh[c], v) ELSE respCh[c]]
    /\ resolvedBy' = [c \in Callers |->
                        IF \E i \in ids \cap pendingRequests : i[1] = c
                           THEN Append(resolvedBy[c], by) ELSE resolvedBy[c]]

Grant(req) ==
    /\ Resolve({req.id}, TRUE, "Grant")
    /\ UNCHANGED sessionPermissions

GrantPersistentAnyAction(req) ==
    /\ Resolve({req.id}, TRUE, "GrantPersistent")
    /\ sessionPermissions' =
          sessionPermissions \cup {<<req.session, req.tool, a>> : a \in {"execute", "write"}}

GrantPersistent(req) ==
    /\ Resolve({req.id}, TRUE, "GrantPersistent")
    /\ sessionPermissions' =
          sessionPermissions \cup {<<req.session, req.tool, req.action>>}

Deny(req) ==
    /\ Resolve({req.id}, FALSE, "Deny")
    /\ UNCHANGED sessionPermissions

SetSkipFlagOnly(b) ==
    /\ skip' = b
    /\ UNCHANGED <<ext, pendingRequests, respCh, resolvedBy>>

\* SetSkipRequests: toggled on, every pending request is auto-granted
SetSkipRequests(b) ==
    /\ skip' = b
    /\ IF b THEN Resolve(pendingRequests, TRUE, "skip")
            ELSE UNCHANGED <<ext, pendingRequests, respCh, resolvedBy>>

\* what the caller does with the verdict p of Request:
\* McpTool.Run lines 253-257; another tool reports it
AfterRequestIgnored(c, p) ==
    /\ verdict' = [verdict EXCEPT ![c] = IF p THEN "true" ELSE "false"]
    /\ IF kind[c] = "mcp"
          THEN Goto(c, "runTool") /\ UNCHANGED localVars
          ELSE Finish(c, "permitted")

AfterRequest(c, p) ==
    /\ verdict' = [verdict EXCEPT ![c] = IF p THEN "true" ELSE "false"]
    /\ IF ~p THEN Finish(c, "denied")
       ELSE IF kind[c] = "mcp"
            THEN Goto(c, "runTool") /\ UNCHANGED localVars
            ELSE Finish(c, "permitted")

\* Request, entered by caller c with ReqOf(c)
Request(c) ==
    /\ pc[c] = "request"
    /\ IF ShortCircuit(sess[c], tool[c], act[c])
          THEN /\ AfterRequest(c, TRUE)
               /\ UNCHANGED <<ext, pendingRequests, respCh, published, subCh>>
          ELSE /\ pendingRequests' = pendingRequests \cup {ReqOf(c).id}
               /\ UNCHANGED verdict
               /\ respCh' = [respCh EXCEPT ![c] = <<>>]
               /\ published' = [published EXCEPT ![c] = @ + 1]
               \* Publish on the requests topic: dropped when the subscriber is full
               /\ subCh' = IF Len(subCh) < SubCap THEN Append(subCh, ReqOf(c)) ELSE subCh
               /\ Goto(c, "blocked")
               /\ UNCHANGED localVars
    /\ UNCHANGED <<ext, mcpVars, nRuns, phase, err, nCalls, nRestarts, startedIn, emitted,
                   medVars, resolvedBy, cfgVars, events, dialogs>>

\* return <-respCh
RequestReturn(c) ==
    /\ pc[c] = "blocked"
    /\ respCh[c] # <<>>
    /\ respCh' = [respCh EXCEPT ![c] = Tail(@)]
    /\ AfterRequest(c, Head(respCh[c]))
    /\ UNCHANGED <<ext, mcpVars, nRuns, phase, err, nCalls, nRestarts, startedIn, emitted,
                   medVars, pendingRequests, resolvedBy, published, cfgVars, uiVars>>

(***************************************************************************)
(* runTool and restartMCPClient, as executed by caller c for srv[c].       *)
(***************************************************************************)
\* runTool, lines 179-193: parse the input, mcpClients.Get(name)
runTool(c) ==
    /\ pc[c] = "runTool"
    /\ startedIn' = [startedIn EXCEPT ![c] = mcpStates[srv[c]]]
    /\ \/ \* json.Unmarshal fails on the input
          /\ Finish(c, "parse_error")
          /\ UNCHANGED <<ext, phase, nRestarts>>
       \/ /\ mcpClients[srv[c]] # Nil
          /\ cl' = [cl EXCEPT ![c] = mcpClients[srv[c]]]
          /\ Goto(c, "call1")
          /\ UNCHANGED <<ext, kind, reqNo, sess, tool, act, srv, myLock, phase, nRestarts>>
       \/ /\ mcpClients[srv[c]] = Nil
          /\ phase' = [phase EXCEPT ![c] = 1]
          /\ nRestarts' = [nRestarts EXCEPT ![c] = @ + 1]
          /\ Goto(c, "r_getlock")
          /\ UNCHANGED localVars
    /\ UNCHANGED <<ext, mcpVars, nRuns, err, nCalls, emitted, verdict, others>>

\* mcpClientConfigs.Get, then getClientLock: mcpClientLocks.Get(name)
getClientLock(c) ==
    /\ pc[c] = "r_getlock"
    /\ IF srv[c] \notin mcpClientConfigs
          THEN /\ Goto(c, "r_noconfig")
               /\ UNCHANGED myLock
          ELSE IF mcpClientLocks[srv[c]] # Nil
          THEN /\ myLock' = [myLock EXCEPT ![c] = mcpClientLocks[srv[c]]]
               /\ Goto(c, "r_lock")
          ELSE /\ Goto(c, "r_newlock")
               /\ UNCHANGED myLock
    /\ UNCHANGED <<ext, mcpVars, nRuns, kind, reqNo, sess, tool, act, srv, cl, histVars,
                   others>>

\* getClientLock, the miss: m := &sync.Mutex{}; mcpClientLocks.Set(name, m); return m
getClientLockNew(c) ==
    /\ pc[c] = "r_newlock"
    /\ mcpClientLocks' = [mcpClientLocks EXCEPT ![srv[c]] = <<srv[c], c>>]
    /\ myLock' = [myLock EXCEPT ![c] = <<srv[c], c>>]
    /\ Goto(c, "r_lock")
    /\ UNCHANGED <<ext, mcpClients, mcpClientConfigs, lockHeld, live, topicVars, startVars,
                   nRuns, kind, reqNo, sess, tool, act, srv, cl, histVars, others>>

\* lock.Lock()
RestartLock(c) ==
    /\ pc[c] = "r_lock"
    /\ myLock[c] \notin lockHeld
    /\ lockHeld' = lockHeld \cup {myLock[c]}
    /\ Goto(c, "r_take")
    /\ UNCHANGED <<ext, mcpClients, mcpClientConfigs, mcpClientLocks, live, topicVars,
                   startVars, nRuns, localVars, histVars, others>>

\* if existing, ok := mcpClients.Take(name); ok && existing != nil { existing.Close() }
RestartTake(c) ==
    /\ pc[c] = "r_take"
    /\ mcpClients' = [mcpClients EXCEPT ![srv[c]] = Nil]
    /\ live' = live \ {mcpClients[srv[c]]}
    /\ Goto(c, "r_create")
    /\ UNCHANGED <<ext, mcpClientConfigs, mcpClientLocks, lockHeld, topicVars, startVars,
                   nRuns, localVars, histVars, others>>

\* a failed restart whose error replaces the error of the call before it
RestartFailReplace(c, rerr, created) ==
    /\ updateMCPState(c, srv[c], MCPStateError)
    /\ live' = IF created THEN live \ {cl[c]} ELSE live
    /\ err' = [err EXCEPT ![c] = rerr]
    /\ Goto(c, "r_fail")

\* a step of the restart failed with rerr: updateMCPState(Error), close the new client
RestartFail(c, rerr, created) ==
    /\ updateMCPState(c, srv[c], MCPStateError)
    /\ live' = IF created THEN live \ {cl[c]} ELSE live
    /\ err' = [err EXCEPT ![c] =
                 IF phase[c] = 2 THEN @ \o <<"; restart failed: ">> \o rerr ELSE rerr]
    /\ Goto(c, "r_fail")

\* createMcpClient(cfg)
RestartCreate(c) ==
    /\ pc[c] = "r_create"
    /\ \/ /\ cl' = [cl EXCEPT ![c] = NewClient(srv[c])]
          /\ live' = live \cup {NewClient(srv[c])}
          /\ Goto(c, "r_start")
          /\ UNCHANGED <<ext, topicVars, err>>
       \/ /\ \E rerr \in StartErrs : RestartFail(c, rerr, FALSE)
          /\ UNCHANGED cl
    /\ UNCHANGED <<ext, mcpClients, mcpClientConfigs, mcpClientLocks, lockHeld, startVars,
                   nRuns, kind, reqNo, sess, tool, act, srv, myLock, phase, nCalls,
                   nRestarts, startedIn, emitted, verdict, others>>

\* c.Start(rctx) and c.Initialize(rctx, ...)
RestartStartInit(c) ==
    /\ pc[c] = "r_start"
    /\ \/ /\ Goto(c, "r_set")
          /\ UNCHANGED <<ext, topicVars, live, err>>
       \/ \E rerr \in StartErrs : RestartFail(c, rerr, TRUE)
    /\ UNCHANGED <<ext, mcpClients, mcpClientConfigs, mcpClientLocks, lockHeld, startVars,
                   nRuns, localVars, phase, nCalls, nRestarts, startedIn, emitted,
                   verdict, others>>

\* best-effort c.ListTools, then mcpClients.Set(name, c)
RestartSet(c) ==
    /\ pc[c] = "r_set"
    /\ mcpClients' = [mcpClients EXCEPT ![srv[c]] = cl[c]]
    /\ Goto(c, "r_connected")
    /\ UNCHANGED <<ext, mcpClientConfigs, mcpClientLocks, lockHeld, live, topicVars,
                   startVars, nRuns, localVars, histVars, others>>

\* updateMCPState(name, MCPStateConnected, nil, c, toolCount)
RestartConnected(c) ==
    /\ pc[c] = "r_connected"
    /\ updateMCPState(c, srv[c], MCPStateConnected)
    /\ Goto(c, "r_ok")
    /\ UNCHANGED <<ext, tblVars, startVars, nRuns, localVars, histVars, others>>

\* a return from restartMCPClient that leaves the mutex locked for the call that follows
RestartReturnKeepLock(c) ==
    /\ pc[c] \in {"r_ok", "r_fail", "r_noconfig"}
    /\ Free(c)
    /\ lockHeld' = IF pc[c] = "r_fail" THEN lockHeld \ {myLock[c]} ELSE lockHeld
    /\ IF pc[c] = "r_ok"
          THEN /\ Goto(c, IF phase[c] = 1 THEN "call1" ELSE "call2")
               /\ myLock' = [myLock EXCEPT ![c] = Nil]
               /\ UNCHANGED <<ext, kind, reqNo, sess, tool, act, srv, cl>>
          ELSE Finish(c, IF phase[c] = 1 THEN "unavailable" ELSE "error")
    /\ UNCHANGED <<ext, mcpClients, mcpClientConfigs, mcpClientLocks, live, topicVars,
                   startVars, nRuns, histVars, others>>

\* return from restartMCPClient (the deferred lock.Unlock()) back into runTool:
\* lines 190-192 for the lazy restart, lines 208-218 for the restart after an error
RestartReturn(c) ==
    /\ pc[c] \in {"r_ok", "r_fail", "r_noconfig"}
    /\ Free(c)
    /\ lockHeld' = IF pc[c] = "r_noconfig" THEN lockHeld ELSE lockHeld \ {myLock[c]}
    /\ IF pc[c] = "r_ok"
          THEN /\ Goto(c, IF phase[c] = 1 THEN "call1" ELSE "call2")
               /\ myLock' = [myLock EXCEPT ![c] = Nil]
               /\ UNCHANGED <<ext, kind, reqNo, sess, tool, act, srv, cl>>
          ELSE Finish(c, IF phase[c] = 1 THEN "unavailable" ELSE "error")
    /\ UNCHANGED <<ext, mcpClients, mcpClientConfigs, mcpClientLocks, live, topicVars,
                   startVars, nRuns, histVars, others>>

\* the outcomes CallTool can have on client k: a closed client only fails
CallOutcomes(k) == IF k \notin live THEN CallErrs ELSE {NoErr} \cup CallErrs

\* result, err := call(c), lines 204-222
CallTool1(c) ==
    /\ pc[c] = "call1"
    /\ nCalls' = [nCalls EXCEPT ![c] = @ + 1]
    /\ \E e \in CallOutcomes(cl[c]) :
          /\ err' = [err EXCEPT ![c] = e]
          /\ IF e # NoErr /\ isTransientTransportError(e)
                THEN /\ phase' = [phase EXCEPT ![c] = 2]
                     /\ nRestarts' = [nRestarts EXCEPT ![c] = @ + 1]
                     /\ Goto(c, "r_getlock")
                     /\ UNCHANGED localVars
                ELSE /\ Finish(c, IF e = NoErr THEN "ok" ELSE "error")
                     /\ UNCHANGED <<ext, phase, nRestarts>>
    /\ UNCHANGED <<ext, mcpVars, nRuns, startedIn, emitted, verdict, others>>

\* result2, err2 := call(c2), lines 209-214
CallTool2(c) ==
    /\ pc[c] = "call2"
    /\ nCalls' = [nCalls EXCEPT ![c] = @ + 1]
    /\ \E e \in CallOutcomes(cl[c]) :
          /\ err' = [err EXCEPT ![c] = e]
          /\ Finish(c, IF e = NoErr THEN "ok" ELSE "error")
    /\ UNCHANGED <<ext, mcpVars, nRuns, phase, nRestarts, startedIn, emitted, verdict, others>>

(***************************************************************************)
(* setupSubscriber: the forwarder goroutine of a topic, in steps, and      *)
(* App.Subscribe, which hands the messages of app.events to the program.   *)
(***************************************************************************)
\* the topic's broker puts the next event into the subscriber channel; when the
\* channel is full the event is dropped for this subscriber
TopicEvent(tp) ==
    /\ nPublished[tp] < MaxEvents
    /\ nPublished' = [nPublished EXCEPT ![tp] = @ + 1]
    /\ topicCh' = IF Len(topicCh[tp]) < SubCap
                     THEN [topicCh EXCEPT ![tp] = Append(@, <<tp, nPublished[tp] + 1>>)]
                     ELSE topicCh
    /\ UNCHANGED <<msg, uiSeen, nDropped, events, fanRest>>

\* case event, ok := <-subCh: var msg tea.Msg = event
SubReceive(tp) ==
    /\ msg[tp] = Nil /\ topicCh[tp] # <<>>
    /\ msg' = [msg EXCEPT ![tp] = Head(topicCh[tp])]
    /\ topicCh' = [topicCh EXCEPT ![tp] = Tail(@)]
    /\ UNCHANGED <<nPublished, uiSeen, nDropped, events, fanRest>>

\* case outputCh <- msg
SubSend(tp) ==
    /\ msg[tp] # Nil /\ Len(events) < UiCap
    /\ events' = Append(events, msg[tp])
    /\ msg' = [msg EXCEPT ![tp] = Nil]
    /\ UNCHANGED <<topicCh, nPublished, uiSeen, nDropped, fanRest>>

\* a timeout that gives up on the backlog of the topic as well
SubTimeoutFlush(tp) ==
    /\ msg[tp] # Nil /\ Len(events) = UiCap
    /\ msg' = [msg EXCEPT ![tp] = Nil]
    /\ topicCh' = [topicCh EXCEPT ![tp] = <<>>]
    /\ nDropped' = [nDropped EXCEPT ![tp] = @ + 1]
    /\ UNCHANGED <<nPublished, uiSeen, events, fanRest>>

\* case <-time.After(subscriberSendTimeout): outputCh stayed full, msg is dropped
SubTimeout(tp) ==
    /\ msg[tp] # Nil /\ Len(events) = UiCap
    /\ msg' = [msg EXCEPT ![tp] = Nil]
    /\ nDropped' = [nDropped EXCEPT ![tp] = @ + 1]
    /\ UNCHANGED <<topicCh, nPublished, uiSeen, events, fanRest>>

\* App.Subscribe: case msg, ok := <-app.events: program.Send(msg)
Subscribe ==
    /\ events # <<>>
    /\ events' = Tail(events)
    /\ uiSeen' = [uiSeen EXCEPT ![Head(events)[1]] = Head(events)[2]]
    /\ UNCHANGED <<topicCh, msg, nPublished, nDropped, fanRest>>

(***************************************************************************)
(* CloseMCPClients: close every client in the table, shut the broker down. *)
(***************************************************************************)
CloseMCPClients ==
    /\ live' = live \ {mcpClients[s] : s \in Servers}
    /\ mcpClosed' = TRUE
    /\ UNCHANGED <<mcpClients, mcpClientConfigs, mcpClientLocks, lockHeld, topicVars,
                   startVars, lastEvent>>

(***************************************************************************)
(* The application root: registration of the cleanup functions, the tasks  *)
(* they stop, and App.Shutdown in steps.                                   *)
(***************************************************************************)
\* InitCoderAgent succeeds, in New or from the UI's ModelSelectedMsg handler
InitCoderAgent ==
    /\ ~coderAgent /\ spc = "idle"
    /\ coderAgent' = TRUE
    /\ cleanupFuncs' = Append(cleanupFuncs, "mcp")
    /\ UNCHANGED <<tuiStarted, spc, agentCancelled, lspDown, invoked, taskVars, appRest>>

\* App.Subscribe up to its loop: app.cleanupFuncs = append(app.cleanupFuncs, ...)
SubscribeStart ==
    /\ ~tuiStarted /\ spc = "idle"
    /\ tuiStarted' = TRUE
    /\ tuiRunning' = TRUE
    /\ cleanupFuncs' = Append(cleanupFuncs, "tui")
    /\ UNCHANGED <<coderAgent, spc, agentCancelled, lspDown, invoked, wCancelled,
                   wExited, eventsCancelled, fwdRunning, tuiCancelled, appRest>>

\* an LSP watcher task ends, by itself or because its context was cancelled
WatcherExit(w) ==
    /\ w \notin wExited
    /\ wExited' = wExited \cup {w}
    /\ UNCHANGED <<regVars, spc, agentCancelled, lspDown, invoked, wCancelled,
                   eventsCancelled, fwdRunning, tuiCancelled, tuiRunning, appRest>>

\* the forwarders of setupSubscriber return on <-ctx.Done()
ForwardersExit ==
    /\ eventsCancelled /\ fwdRunning
    /\ fwdRunning' = FALSE
    /\ UNCHANGED <<regVars, spc, agentCancelled, lspDown, invoked, wCancelled,
                   wExited, eventsCancelled, tuiCancelled, tuiRunning, appRest>>

\* a forwarder that watches ctx.Done() in its outer select only
SubCancelledOuter(tp) ==
    /\ eventsCancelled /\ tp \notin fwdExited
    /\ msg[tp] = Nil
    /\ fwdExited' = fwdExited \cup {tp}
    /\ fwdRunning' = (fwdExited' # Topics)
    /\ UNCHANGED <<regVars, spc, agentCancelled, lspDown, invoked, wCancelled, wExited,
                   eventsCancelled, tuiCancelled, tuiRunning, core, uiVars, obsVars,
                   fanVars, ptyVars, authVars, inputVars, confVars, modeVars, niVars,
                   sigVars, newVars, selVars>>

\* the forwarder of topic tp returns on <-ctx.Done(), from the outer select or from
\* the inner one where it holds a message, or on its closed subscription channel;
\* the deferred wg.Done() runs
SubCancelled(tp) ==
    /\ eventsCancelled /\ tp \notin fwdExited
    /\ fwdExited' = fwdExited \cup {tp}
    /\ fwdRunning' = (fwdExited' # Topics)
    /\ UNCHANGED <<regVars, spc, agentCancelled, lspDown, invoked, wCancelled, wExited,
                   eventsCancelled, tuiCancelled, tuiRunning, core, uiVars, obsVars,
                   fanVars, ptyVars, authVars, inputVars, confVars, modeVars, niVars,
                   sigVars, newVars, selVars>>

\* the loop of App.Subscribe returns on <-tuiCtx.Done()
TuiExit ==
    /\ tuiCancelled /\ tuiRunning
    /\ tuiRunning' = FALSE
    /\ UNCHANGED <<regVars, spc, agentCancelled, lspDown, invoked, wCancelled,
                   wExited, eventsCancelled, fwdRunning, tuiCancelled, appRest>>

\* Shutdown, lines 431-433: if app.CoderAgent != nil { app.CoderAgent.CancelAll() }
ShutdownCancelAll ==
    /\ spc = "idle"
    /\ agentCancelled' = coderAgent
    /\ spc' = "watchers"
    /\ UNCHANGED <<regVars, lspDown, invoked, taskVars, appRest>>

\* one iteration of `for cancel := range app.watcherCancelFuncs.Seq() { cancel() }`
ShutdownCancelWatcher(w) ==
    /\ spc = "watchers" /\ w \notin wCancelled
    /\ wCancelled' = wCancelled \cup {w}
    /\ UNCHANGED <<regVars, spc, agentCancelled, lspDown, invoked, wExited,
                   eventsCancelled, fwdRunning, tuiCancelled, tuiRunning, appRest>>

\* the loop over the watchers is over
ShutdownWatchersCancelled ==
    /\ spc = "watchers" /\ wCancelled = Watchers
    /\ spc' = "wait"
    /\ UNCHANGED <<regVars, agentCancelled, lspDown, invoked, taskVars, appRest>>

\* a Shutdown that goes on without waiting for the watchers
ShutdownNoWait ==
    /\ spc = "wait"
    /\ spc' = "lsp"
    /\ UNCHANGED <<regVars, agentCancelled, lspDown, invoked, taskVars, appRest>>

\* app.lspWatcherWG.Wait() returns
ShutdownWait ==
    /\ spc = "wait" /\ wExited = Watchers
    /\ spc' = "lsp"
    /\ UNCHANGED <<regVars, agentCancelled, lspDown, invoked, taskVars, appRest>>

\* one iteration of `for name, client := range clients`: client.Shutdown(shutdownCtx)
ShutdownLsp(l) ==
    /\ spc = "lsp" /\ l \notin lspDown
    /\ lspDown' = lspDown \cup {l}
    /\ UNCHANGED <<regVars, spc, agentCancelled, invoked, taskVars, appRest>>

\* the loop over the LSP clients is over
ShutdownLspDone ==
    /\ spc = "lsp" /\ lspDown = LspClients
    /\ spc' = "cleanup"
    /\ UNCHANGED <<regVars, agentCancelled, lspDown, invoked, taskVars, appRest>>

\* one iteration of `for _, cleanup := range app.cleanupFuncs`: the call of the
\* next cleanup function, up to the point where it waits
ShutdownCleanup ==
    /\ spc = "cleanup" /\ Len(invoked) < Len(cleanupFuncs)
    /\ LET f == cleanupFuncs[Len(invoked) + 1] IN
          /\ invoked' = Append(invoked, f)
          /\ IF f = "events"
                THEN /\ eventsCancelled' = TRUE
                     /\ spc' = "waitEvents"
                     /\ UNCHANGED <<tuiCancelled, mcpVars, obsVars>>
                ELSE IF f = "tui"
                THEN /\ tuiCancelled' = TRUE
                     /\ spc' = "waitTui"
                     /\ UNCHANGED <<eventsCancelled, mcpVars, obsVars>>
                ELSE /\ CloseMCPClients
                     /\ UNCHANGED <<spc, eventsCancelled, tuiCancelled>>
    /\ UNCHANGED <<regVars, agentCancelled, lspDown, wCancelled, wExited, fwdRunning,
                   tuiRunning, callVars, permVars, cfgVars, uiVars, fanVars, ptyVars, host>>

\* app.serviceEventsWG.Wait() or app.tuiWG.Wait() returns, and with it the cleanup
ShutdownCleanupWaited ==
    /\ \/ spc = "waitEvents" /\ ~fwdRunning
       \/ spc = "waitTui" /\ ~tuiRunning
    /\ spc' = "cleanup"
    /\ UNCHANGED <<regVars, agentCancelled, lspDown, invoked, taskVars, appRest>>

\* Shutdown returns
ShutdownReturn ==
    /\ spc = "cleanup" /\ Len(invoked) = Len(cleanupFuncs)
    /\ spc' = "done"
    /\ UNCHANGED <<regVars, agentCancelled, lspDown, invoked, taskVars, appRest>>

(***************************************************************************)
(* Fan-in of the permissions topic into app.events (setupSubscriber) and   *)
(* the UI update loop (appModel.Update).                                   *)
(***************************************************************************)
\* one iteration of the forwarder's loop: case event, ok := <-subCh, then
\* case outputCh <- msg
ForwardSend ==
    /\ subCh # <<>> /\ Len(events) < UiCap
    /\ events' = Append(events, Head(subCh))
    /\ subCh' = Tail(subCh)
    /\ UNCHANGED <<ext, mcpVars, callVars, permVars, cfgVars, dialogs>>

\* one iteration that ends in case <-time.After(subscriberSendTimeout): the channel
\* stayed full for the whole wait, the message is dropped
ForwardDrop ==
    /\ subCh # <<>> /\ Len(events) = UiCap
    /\ subCh' = Tail(subCh)
    /\ UNCHANGED <<ext, mcpVars, callVars, permVars, cfgVars, events, dialogs>>

\* the UI takes a message: a PermissionRequest event opens a permission dialog
UiReceive ==
    /\ events # <<>>
    /\ events' = Tail(events)
    /\ dialogs' = dialogs \cup {Head(events)}
    /\ UNCHANGED <<ext, mcpVars, callVars, permVars, cfgVars, subCh>>

PermissionAllow == "allow"
PermissionAllowForSession == "allow_session"
PermissionDeny == "deny"
PermissionActions == {PermissionAllow, PermissionAllowForSession, PermissionDeny}

\* case permissions.PermissionResponseMsg: switch msg.Action
UpdatePermissionResponse(req, action) ==
    IF action = PermissionAllow THEN Grant(req)
    ELSE IF action = PermissionAllowForSession THEN GrantPersistent(req)
    ELSE Deny(req)

\* the user answers an open dialog; the dialog closes and sends PermissionResponseMsg
UiRespond(req, action) ==
    /\ req \in dialogs
    /\ dialogs' = dialogs \ {req}
    /\ UpdatePermissionResponse(req, action)
    /\ UNCHANGED <<ext, mcpVars, callVars, allowedTools, skip, autoApproveSessions, published,
                   cfgVars, subCh, events>>

\* currentAllowed := []string{"bash", "bash:execute"}
BashAllowed == {ToolKey("bash"), CommandKey("bash", "execute")}

\* case commands.ToggleYoloModeMsg
ToggleYoloMode ==
    /\ SetSkipRequests(~skip)
    /\ cfgLashYolo' = ~skip
    /\ cfgConfirmAgentExec' = <<skip>>
    /\ allowedTools' = IF ~skip THEN BashAllowed ELSE {}
    /\ UNCHANGED <<ext, mcpVars, callVars, autoApproveSessions, sessionPermissions, published,
                   uiVars>>

\* case key.Matches(msg, a.keyMap.ToggleAutoConfirm)
ToggleAutoConfirm ==
    LET current == IF cfgConfirmAgentExec # <<>> THEN cfgConfirmAgentExec[1] ELSE TRUE
        newVal == ~current
    IN  /\ cfgConfirmAgentExec' = <<newVal>>
        /\ allowedTools' = IF ~newVal THEN BashAllowed ELSE {}
        /\ UNCHANGED <<ext, mcpVars, callVars, skip, autoApproveSessions, sessionPermissions,
                       reqVars, cfgLashYolo, uiVars>>

\* RunNonInteractive: app.Permissions.AutoApproveSession(sess.ID)
AutoApproveSession(sid) ==
    /\ sid \notin autoApproveSessions
    /\ autoApproveSessions' = autoApproveSessions \cup {sid}
    /\ UNCHANGED <<ext, mcpVars, callVars, allowedTools, skip, sessionPermissions, reqVars,
                   cfgVars, uiVars>>

(***************************************************************************)
(* PTYShell: the shell process, pumpOutput, wait, Close and Write.         *)
(***************************************************************************)
Min(a, b) == IF a < b THEN a ELSE b

\* the bytes number a to number b
Bytes(a, b) == [i \in 1..(b - a + 1) |-> a + i - 1]

\* the shell writes a byte to its terminal
ShellOutput ==
    /\ ~procExited /\ nProduced < MaxBytes
    /\ nProduced' = nProduced + 1
    /\ UNCHANGED <<procExited, fdVars, closeHist, pumpVars, waitVars, consVars,
                   closerVars, termVars, ptyRest>>

\* the shell process exits: by itself, on the hangup or on the kill
ProcExit ==
    /\ ~procExited
    /\ procExited' = TRUE
    /\ UNCHANGED <<nProduced, fdVars, closeHist, pumpVars, waitVars, consVars,
                   closerVars, termVars, ptyRest>>

\* pumpOutput, lines 551-556: the read ended with error e
ReadEnds(e) ==
    /\ outClosed' = (outClosed \/ IsEOF(e))
    /\ ppc' = "returned"
    /\ UNCHANGED <<chunk, nRead>>

\* n, err := s.ptmx.Read(buf): on a closed file it fails; it returns the bytes
\* there are, up to len(buf); with none left and the process gone it ends with
\* end of file or with an I/O error, whichever the platform gives
PumpRead ==
    /\ ppc = "read"
    /\ IF ~fdOpen
          THEN ReadEnds(ReadClosed)
          ELSE IF nProduced > nRead
          THEN /\ chunk' = Bytes(nRead + 1, nRead + Min(nProduced - nRead, ChunkMax))
               /\ nRead' = nRead + Min(nProduced - nRead, ChunkMax)
               /\ ppc' = "send"
               /\ UNCHANGED outClosed
          ELSE /\ procExited
               /\ \E e \in {ReadEOF, ReadEIO} : ReadEnds(e)
    /\ UNCHANGED <<outputCh, procVars, fdVars, closeHist, waitVars, consVars, closerVars,
                   termVars, ptyRest>>

\* s.outputCh <- chunk
PumpSend ==
    /\ ppc = "send" /\ Len(outputCh) < OutCap
    /\ outputCh' = Append(outputCh, chunk)
    /\ chunk' = <<>>
    /\ ppc' = "read"
    /\ UNCHANGED <<nRead, outClosed, procVars, fdVars, closeHist, waitVars, consVars,
                   closerVars, termVars, ptyRest>>

\* wait: err := s.cmd.Wait(); s.doneCh <- err
WaitSend ==
    /\ wpc = "wait" /\ procExited
    /\ doneCh' = Append(doneCh, "exit")
    /\ wpc' = "close"
    /\ UNCHANGED <<doneClosed, procVars, fdVars, closeHist, pumpVars, consVars,
                   closerVars, termVars, ptyRest>>

\* wait: close(s.doneCh)
WaitClose ==
    /\ wpc = "close"
    /\ doneClosed' = TRUE
    /\ wpc' = "returned"
    /\ UNCHANGED <<doneCh, procVars, fdVars, closeHist, pumpVars, consVars,
                   closerVars, termVars, ptyRest>>

\* a consumer receives from Done(): the exit error, or the closed stream
DoneReceive ==
    /\ IF doneCh # <<>>
          THEN /\ doneCh' = Tail(doneCh)
               /\ doneGot' = doneGot + 1
               /\ UNCHANGED doneSawClosed
          ELSE /\ doneClosed /\ ~doneSawClosed
               /\ doneSawClosed' = TRUE
               /\ UNCHANGED <<doneCh, doneGot>>
    /\ UNCHANGED <<wpc, doneClosed, writeResult, procVars, fdVars, closeHist, pumpVars,
                   closerVars, termVars, ptyRest>>

\* a Close that neither looks at s.started nor clears s.ptmx
CloseLockUnguarded(k) ==
    /\ kpc[k] = "idle"
    /\ started' = FALSE
    /\ kptmx' = [kptmx EXCEPT ![k] = ptmxSet]
    /\ kpc' = [kpc EXCEPT ![k] = "hangup"]
    /\ UNCHANGED <<ptmxSet, fdOpen, nFdClose, procVars, closeHist, pumpVars, waitVars,
                   consVars, termVars, ptyRest>>

\* Close, lines 626-634: under s.mu, return nil if !s.started; else clear
\* s.started and s.ptmx and keep the file in a local
CloseLock(k) ==
    /\ kpc[k] = "idle"
    /\ IF ~started
          THEN /\ kpc' = [kpc EXCEPT ![k] = "returned"]
               /\ UNCHANGED <<started, ptmxSet, kptmx>>
          ELSE /\ started' = FALSE
               /\ ptmxSet' = FALSE
               /\ kptmx' = [kptmx EXCEPT ![k] = ptmxSet]
               /\ kpc' = [kpc EXCEPT ![k] = "hangup"]
    /\ UNCHANGED <<fdOpen, nFdClose, procVars, closeHist, pumpVars, waitVars, consVars,
                   termVars, ptyRest>>

\* cmd.Process.Signal(syscall.SIGHUP)
CloseHangup(k) ==
    /\ kpc[k] = "hangup"
    /\ hupSent' = TRUE
    /\ kpc' = [kpc EXCEPT ![k] = "select"]
    /\ UNCHANGED <<graceEnded, killIssued, kptmx, procVars, fdVars, pumpVars, waitVars,
                   consVars, termVars, ptyRest>>

\* select { case <-time.After(300 * time.Millisecond): case <-s.doneCh: }
CloseSelect(k) ==
    /\ kpc[k] = "select"
    /\ \/ UNCHANGED doneCh
       \/ /\ doneCh # <<>>
          /\ doneCh' = Tail(doneCh)
       \/ /\ doneCh = <<>> /\ doneClosed
          /\ UNCHANGED doneCh
    /\ graceEnded' = TRUE
    /\ kpc' = [kpc EXCEPT ![k] = "kill"]
    /\ UNCHANGED <<hupSent, killIssued, kptmx, wpc, doneClosed, procVars, fdVars,
                   pumpVars, consVars, termVars, ptyRest>>

\* cmd.Process.Kill()
CloseKill(k) ==
    /\ kpc[k] = "kill"
    /\ killIssued' = TRUE
    /\ kpc' = [kpc EXCEPT ![k] = "ptmx"]
    /\ UNCHANGED <<hupSent, graceEnded, kptmx, procVars, fdVars, pumpVars, waitVars,
                   consVars, termVars, ptyRest>>

\* if ptmx != nil { _ = ptmx.Close() }; return nil
ClosePtmx(k) ==
    /\ kpc[k] = "ptmx"
    /\ IF kptmx[k]
          THEN /\ fdOpen' = FALSE
               /\ nFdClose' = nFdClose + 1
          ELSE UNCHANGED <<fdOpen, nFdClose>>
    /\ kpc' = [kpc EXCEPT ![k] = "returned"]
    /\ kptmx' = [kptmx EXCEPT ![k] = FALSE]
    /\ UNCHANGED <<started, ptmxSet, procVars, closeHist, pumpVars, waitVars, consVars,
                   termVars, ptyRest>>

\* the caller has its nil and may call Close again
CloseReturn(k) ==
    /\ kpc[k] = "returned"
    /\ kpc' = [kpc EXCEPT ![k] = "idle"]
    /\ UNCHANGED <<kptmx, procVars, fdVars, closeHist, pumpVars, waitVars, consVars,
                   termVars, ptyRest>>

\* Write: under s.mu, io.ErrClosedPipe if !s.started || s.ptmx == nil; else
\* s.ptmx.Write(p), which writes to the master or fails with an I/O error
Write ==
    /\ IF ~started \/ ~ptmxSet
          THEN writeResult' = <<ErrClosedPipe, procExited>>
          ELSE \E r \in {"written", ReadEIO} : writeResult' = <<r, procExited>>
    /\ UNCHANGED <<doneGot, doneSawClosed, procVars, fdVars, closeHist, pumpVars,
                   waitVars, closerVars, termVars, ptyRest>>

\* forwardSignals: one iteration of `for sig := range sigCh { _ = s.Signal(sig) }`;
\* sigCh is closed nowhere, so the loop has no other way on
ForwardSignal ==
    /\ fpc = "range" /\ nSignals < MaxSignals
    /\ nSignals' = nSignals + 1
    /\ UNCHANGED <<fpc, agentSide, authVars, inputVars, confVars, modeVars, niVars,
                   drainVars, newVars, selVars>>

(***************************************************************************)
(* NewPTYShellContext: the goroutine that creates the shell, and the       *)
(* caller's select.  The fields of the shell have the values NewPTYShell   *)
(* gives them; the shell exists once spawned is set.                       *)
(***************************************************************************)
newRest == <<agentSide, authVars, inputVars, confVars, modeVars, niVars, drainVars, sigVars, selVars>>

\* the context of the caller is cancelled or times out
CtxDone ==
    /\ ~ctxDone
    /\ ctxDone' = TRUE
    /\ UNCHANGED <<goPc, goRes, resultCh, cret, spawned, newRest>>

\* s, err := NewPTYShell(...): ptypkg.Start fails, or the shell runs
GoNewPTYShell ==
    /\ goPc = "start"
    /\ \/ spawned' = TRUE /\ goRes' = <<"shell">>
       \/ spawned' = FALSE /\ goRes' = <<"error">>
    /\ goPc' = "send"
    /\ UNCHANGED <<ctxDone, resultCh, cret, newRest>>

\* ch <- result{s: s, err: err}
GoSend ==
    /\ goPc = "send"
    /\ resultCh' = Append(resultCh, goRes)
    /\ goPc' = "returned"
    /\ UNCHANGED <<ctxDone, goRes, cret, spawned, newRest>>

\* select { case <-ctx.Done(): return nil, ctx.Err(); case r := <-ch: return r.s, r.err }
NewPTYShellContext ==
    /\ cret = Nil
    /\ \/ /\ ctxDone
          /\ cret' = <<"ctx">>
          /\ UNCHANGED resultCh
       \/ /\ resultCh # <<>>
          /\ cret' = Head(resultCh)
          /\ resultCh' = Tail(resultCh)
    /\ UNCHANGED <<ctxDone, goPc, goRes, spawned, newRest>>

(***************************************************************************)
(* Terminal: the listen command and Update.                                *)
(***************************************************************************)
\* the command of listen(): b, ok := <-output
TerminalListen ==
    /\ tpc = "listen"
    /\ IF outputCh # <<>>
          THEN /\ tmsg' = <<"output", Head(outputCh)>>
               /\ outputCh' = Tail(outputCh)
               /\ nReceived' = nReceived + Len(Head(outputCh))
          ELSE /\ outClosed
               /\ tmsg' = <<"closed">>
               /\ UNCHANGED <<outputCh, nReceived>>
    /\ tpc' = "msg"
    /\ UNCHANGED <<buffer, tClosed, ppc, chunk, nRead, outClosed, procVars, fdVars,
                   closeHist, waitVars, consVars, closerVars, ptyRest>>

\* a cut that keeps the oldest half
TrimNewest(b) ==
    IF Len(b) > BufLimit THEN SubSeq(b, 1, Len(b) - Len(b) \div 2) ELSE b

\* no cut
TrimNever(b) == b

\* Update, lines 243-251: above the limit the first half of the buffer is dropped
Trim(b) ==
    IF Len(b) > BufLimit THEN SubSeq(b, Len(b) \div 2 + 1, Len(b)) ELSE b

\* Update: case TerminalOutputMsg appends and listens again; case
\* TerminalClosedMsg sets t.closed
TerminalUpdate ==
    /\ tpc = "msg"
    /\ IF tmsg[1] = "output"
          THEN /\ buffer' = Trim(buffer) \o tmsg[2]
               /\ tpc' = "listen"
               /\ UNCHANGED tClosed
          ELSE /\ tClosed' = TRUE
               /\ tpc' = "idle"
               /\ UNCHANGED buffer
    /\ tmsg' = Nil
    /\ UNCHANGED <<nReceived, procVars, fdVars, closeHist, pumpVars, waitVars, consVars,
                   closerVars, ptyRest>>

(***************************************************************************)
(* Initial states.                                                         *)
(***************************************************************************)
\* package state of mcp-tools.go when doGetMCPTools is entered
McpInit(disabled) ==
    /\ cfgDisabled = disabled
    /\ mcpClients = [s \in Servers |-> Nil]
    /\ mcpStates = [s \in Servers |-> None]
    /\ mcpClientConfigs = {}
    /\ mcpClientLocks = [s \in Servers |-> Nil]
    /\ lockHeld = {}
    /\ live = {}
    /\ pub = [t \in Threads |-> Nil]
    /\ loopTodo = Servers
    /\ gpc = [s \in Servers |-> "none"]
    /\ gclient = [s \in Servers |-> Nil]
    /\ glisted = [s \in Servers |-> FALSE]
    /\ gfailed = [s \in Servers |-> FALSE]
    /\ startupDone = FALSE
    /\ mcpClosed = FALSE
    /\ lastEvent = [s \in Servers |-> None]

\* the state doGetMCPTools returns in when no server is disabled and every step
\* succeeded for every server: each holds its first client and is Connected
McpStarted ==
    /\ cfgDisabled = {}
    /\ mcpClients = [s \in Servers |-> <<s, 1>>]
    /\ mcpStates = [s \in Servers |-> MCPStateConnected]
    /\ mcpClientConfigs = Servers
    /\ mcpClientLocks = [s \in Servers |-> Nil]
    /\ lockHeld = {}
    /\ live = {<<s, 1>> : s \in Servers}
    /\ pub = [t \in Threads |-> Nil]
    /\ loopTodo = {}
    /\ gpc = [s \in Servers |-> "returned"]
    /\ gclient = [s \in Servers |-> <<s, 1>>]
    /\ glisted = [s \in Servers |-> TRUE]
    /\ gfailed = [s \in Servers |-> FALSE]
    /\ startupDone = TRUE
    /\ mcpClosed = FALSE
    /\ lastEvent = [s \in Servers |-> MCPStateConnected]

\* setupEvents has started the forwarders; nothing was published yet
FanInit ==
    /\ topicCh = [tp \in Topics |-> <<>>]
    /\ msg = [tp \in Topics |-> Nil]
    /\ nPublished = [tp \in Topics |-> 0]
    /\ uiSeen = [tp \in Topics |-> 0]
    /\ nDropped = [tp \in Topics |-> 0]

\* New has returned without an agent: setupEvents has recorded its cleanup
AppInit ==
    /\ coderAgent = FALSE
    /\ tuiStarted = FALSE
    /\ cleanupFuncs = <<"events">>
    /\ spc = "idle"
    /\ agentCancelled = FALSE
    /\ wCancelled = {}
    /\ wExited = {}
    /\ lspDown = {}
    /\ invoked = <<>>
    /\ eventsCancelled = FALSE
    /\ fwdRunning = TRUE
    /\ tuiCancelled = FALSE
    /\ tuiRunning = FALSE

\* NewPTYShell has returned and Terminal.Init has issued its listen command
PtyInit ==
    /\ procExited = FALSE
    /\ nProduced = 0
    /\ started = TRUE
    /\ ptmxSet = TRUE
    /\ fdOpen = TRUE
    /\ nFdClose = 0
    /\ hupSent = FALSE
    /\ graceEnded = FALSE
    /\ killIssued = FALSE
    /\ ppc = "read"
    /\ chunk = <<>>
    /\ nRead = 0
    /\ outputCh = <<>>
    /\ outClosed = FALSE
    /\ wpc = "wait"
    /\ doneCh = <<>>
    /\ doneClosed = FALSE
    /\ doneGot = 0
    /\ doneSawClosed = FALSE
    /\ kpc = [k \in Closers |-> "idle"]
    /\ kptmx = [k \in Closers |-> FALSE]
    /\ writeResult = Nil
    /\ tpc = "listen"
    /\ tmsg = Nil
    /\ buffer = <<>>
    /\ tClosed = FALSE
    /\ nReceived = 0

\* no tool invocation has begun
\* ---- the state of the host services at start
OauthInfo(t, r, a, e) == [type |-> t, refresh |-> r, access |-> a, expires |-> e]

\* no entry for a provider in the map
Absent == OauthInfo("absent", "", "", 0)

EmptyStore == [p \in Providers |-> Absent]

\* the store at start: m is the content of auth.json (EmptyStore: no file)
AuthInit(m) ==
    /\ authFile = [valid |-> TRUE, m |-> m]
    /\ now = 0
    /\ apc = [t \in AuthThreads |-> "idle"]
    /\ all = [t \in AuthThreads |-> EmptyStore]
    /\ setArg = [t \in AuthThreads |-> [p |-> "anthropic", info |-> Absent]]
    /\ ret = [access |-> "", ok |-> TRUE, expires |-> 0, at |-> 0, refreshed |-> FALSE]
    /\ sent = 0
    /\ nAccess = 0
    /\ lastRefresh = Absent
    /\ readerSaw = m

\* New: an empty history, and no history file yet
InputInit ==
    /\ InputHistory = <<>>
    /\ histFile = <<>>
    /\ submitted = <<>>
    /\ lastAppend = Nil
    /\ nBoots = 0

EmptyDoc == [q \in LeafPaths |-> Missing]

\* the config data file at start
ConfInit(exists, doc) ==
    /\ cfgFile = [exists |-> exists, doc |-> doc]
    /\ lastSet = Nil
    /\ nSets = 0

\* Config.ActiveMode
ActiveMode(m) == IF m \in {"", " "} THEN "Auto" ELSE m

\* the mode after start with m persisted: New sets app.Mode, the UI model starts
\* with "Auto" until its Init runs
ModeInit(m) ==
    /\ lashMode = m
    /\ appMode = ActiveMode(m)
    /\ activeMode = "Auto"
    /\ uiInit = FALSE

\* RunNonInteractive at the head of its loop, the agent about to start its first turn
NiInit ==
    /\ msgs = <<>>
    /\ agentDone = FALSE
    /\ messageEvents = <<>>
    /\ done = <<>>
    /\ npc = "loop"
    /\ readBts = 0
    /\ stdout = <<>>
    /\ final = Nil

\* setupEvents has started one forwarder per topic
DrainInit == fwdExited = {}

\* NewPTYShell has started forwardSignals
SigInit == fpc = "range" /\ nSignals = 0

\* NewPTYShellContext has started its goroutine and is at its select
\* no model selected by hand yet: the defaults in memory, none in the data file,
\* no coder agent
SelInit ==
    /\ cfgModels = [t \in ModelTypes |-> "m1"]
    /\ fileModels = [t \in ModelTypes |-> Missing]
    /\ agentModel = Nil
    /\ activeRequests = 0
    /\ selReport = Nil
    /\ nSelects = 0

NewInit ==
    /\ ctxDone = FALSE
    /\ goPc = "start"
    /\ goRes = Nil
    /\ resultCh = <<>>
    /\ cret = Nil
    /\ spawned = FALSE

HostInit ==
    /\ AuthInit(EmptyStore)
    /\ InputInit
    /\ ConfInit(FALSE, EmptyDoc)
    /\ ModeInit("")
    /\ NiInit
    /\ DrainInit
    /\ SigInit
    /\ NewInit
    /\ SelInit

AgentInit ==
    /\ nRuns = 0
    /\ FanInit
    /\ AppInit
    /\ PtyInit
    /\ pc = [c \in Callers |-> "idle"]
    /\ result = [c \in Callers |-> "none"]
    /\ kind = [c \in Callers |-> "none"]
    /\ reqNo = [c \in Callers |-> 0]
    /\ sess = [c \in Callers |-> ""]
    /\ tool = [c \in Callers |-> ""]
    /\ act = [c \in Callers |-> ""]
    /\ srv = [c \in Callers |-> ""]
    /\ cl = [c \in Callers |-> Nil]
    /\ myLock = [c \in Callers |-> Nil]
    /\ phase = [c \in Callers |-> 0]
    /\ err = [c \in Callers |-> NoErr]
    /\ nCalls = [c \in Callers |-> 0]
    /\ nRestarts = [c \in Callers |-> 0]
    /\ startedIn = [c \in Callers |-> None]
    /\ emitted = [c \in Callers |-> <<>>]
    /\ verdict = [c \in Callers |-> None]

CallInit ==
    /\ AgentInit
    /\ HostInit

\* skipPermissionsRequests of app.New
NewSkipRequests(permSkip, yolo) == IF yolo THEN TRUE ELSE permSkip

\* allowedTools of app.New
NewAllowedTools(allowed, confirm) ==
    IF confirm # <<>> /\ confirm = <<FALSE>> THEN allowed \cup BashAllowed ELSE allowed

\* app.New: permission.NewPermissionService(workingDir, skip, allowedTools); no
\* request is pending, the fan-in and the UI have seen nothing
PermInit(permSkip, yolo, allowed, confirm) ==
    /\ cfgLashYolo = yolo
    /\ cfgConfirmAgentExec = confirm
    /\ skip = NewSkipRequests(permSkip, yolo)
    /\ allowedTools = NewAllowedTools(allowed, confirm)
    /\ autoApproveSessions = {}
    /\ sessionPermissions = {}
    /\ pendingRequests = {}
    /\ respCh = [c \in Callers |-> <<>>]
    /\ resolvedBy = [c \in Callers |-> <<>>]
    /\ published = [c \in Callers |-> 0]
    /\ subCh = <<>>
    /\ events = <<>>
    /\ dialogs = {}

(***************************************************************************)
(* Startup alone: doGetMCPTools for every choice of disabled servers.      *)
(***************************************************************************)
InitStartup ==
    /\ \E disabled \in SUBSET Servers : McpInit(disabled)
    /\ CallInit
    /\ PermInit(FALSE, FALSE, {}, <<>>)

StartupStep ==
    \/ \E s \in Servers : LoopVisit(s)
    \/ \E s \in Servers : GCreate(s)
    \/ \E s \in Servers : GStartInit(s)
    \/ \E s \in Servers : GSet(s)
    \/ \E s \in Servers : getTools(s)
    \/ \E s \in Servers : getToolsCleanup(s)
    \/ \E s \in Servers : GConnected(s)
    \/ \E s \in Servers : GPanic(s)
    \/ \E s \in Servers : GRecover(s)
    \/ StartupReturn

NextStartup ==
    \/ StartupStep
    \/ \E t \in {"main"} \cup Servers : Publish(t)

SpecStartup == InitStartup /\ [][NextStartup]_vars

(***************************************************************************)
(* The supervisor at run time: tool invocations by two agent goroutines    *)
(* after a startup that connected every server; lash.yolo is set, so that  *)
(* permissions.Request answers at once.                                    *)
(***************************************************************************)
InitMcp ==
    /\ McpStarted
    /\ CallInit
    /\ PermInit(FALSE, TRUE, {}, <<>>)

RunToolStep(c) ==
    \/ runTool(c)
    \/ getClientLock(c)
    \/ getClientLockNew(c)
    \/ RestartLock(c)
    \/ RestartTake(c)
    \/ RestartCreate(c)
    \/ RestartStartInit(c)
    \/ RestartSet(c)
    \/ RestartConnected(c)
    \/ RestartReturn(c)
    \/ CallTool1(c)
    \/ CallTool2(c)

NextMcp ==
    \/ \E c \in Callers, s \in Servers : McpToolRun(c, s, "A", "m")
    \/ \E c \in Callers : Request(c)
    \/ \E c \in Callers : RunToolStep(c)
    \/ \E c \in Callers : Return(c)
    \/ \E c \in Callers : Publish(c)

SpecMcp == InitMcp /\ [][NextMcp]_vars

\* The same goroutines with at most MaxRetryRuns invocations of McpTool.Run: what
\* one invocation of runTool does between its entry and its return does not
\* depend on how many invocations came before it.
NextRetry ==
    \/ \E c \in Callers, s \in Servers : nRuns < MaxRetryRuns /\ McpToolRun(c, s, "A", "m")
    \/ \E c \in Callers : Request(c)
    \/ \E c \in Callers : RunToolStep(c)
    \/ \E c \in Callers : Return(c)
    \/ \E c \in Callers : Publish(c)

SpecRetry == InitMcp /\ [][NextRetry]_vars

(***************************************************************************)
(* One agent goroutine running MCP tools under the default configuration:  *)
(* McpTool.Run, the mediator, the fan-in, the UI and runTool.              *)
(***************************************************************************)
InitRun ==
    /\ McpStarted
    /\ CallInit
    /\ PermInit(FALSE, FALSE, {}, <<>>)

\* the fan-in goroutines and the UI loop
UiStep ==
    \/ ForwardSend
    \/ ForwardDrop
    \/ UiReceive
    \/ \E req \in dialogs, action \in PermissionActions : UiRespond(req, action)
    \/ ToggleYoloMode

NextRun ==
    \/ \E sessionID \in {"", "A"}, messageID \in {"", "m"} :
          McpToolRun("c1", "s1", sessionID, messageID)
    \/ Request("c1")
    \/ RequestReturn("c1")
    \/ RunToolStep("c1")
    \/ Return("c1")
    \/ Publish("c1")
    \/ UiStep

SpecRun == InitRun /\ [][NextRun]_vars

(***************************************************************************)
(* The mediator under several start configurations: a goroutine whose      *)
(* tools ask for permission, the fan-in, the UI and the mode toggles.      *)
(***************************************************************************)
\* start configurations: permissions.skip_requests, lash.yolo,
\* permissions.allowed_tools, lash.safety.confirm_agent_exec
Configs ==
    {<<FALSE, FALSE, {}, <<>>>>,
     <<TRUE, FALSE, {ToolKey("edit")}, <<TRUE>>>>,
     <<FALSE, FALSE, {CommandKey("edit", "write")}, <<FALSE>>>>}

\* the requests (session, tool, action) the tools make: each differs from another
\* one in a single component
Requests ==
    {<<"A", "bash", "execute">>, <<"B", "bash", "execute">>,
     <<"A", "edit", "execute">>, <<"A", "edit", "write">>}

InitPerm ==
    /\ McpStarted
    /\ CallInit
    /\ \E cfg \in Configs : PermInit(cfg[1], cfg[2], cfg[3], cfg[4])

\* At most MaxPermRuns requests are published here and MaxPermRuns <= UiCap, so the
\* UI channel is never full while the forwarder holds an event: the timeout branch
\* of the forwarder (ForwardDrop) is not enabled and the UI steps are listed without it.
\* permissions.allowed_tools of the configurations below
StartupAllowed == {ToolKey("edit")}

\* configurations with YOLO and auto-confirm off and an allow-list
QuietConfigs ==
    {<<FALSE, FALSE, StartupAllowed, <<>>>>,
     <<FALSE, FALSE, StartupAllowed, <<TRUE>>>>}

InitToggle ==
    /\ McpStarted
    /\ CallInit
    /\ \E cfg \in QuietConfigs : PermInit(cfg[1], cfg[2], cfg[3], cfg[4])

NextPerm ==
    \/ \E r \in Requests : nRuns < MaxPermRuns /\ ToolRun("c1", r[1], r[2], r[3])
    \/ Request("c1")
    \/ RequestReturn("c1")
    \/ Return("c1")
    \/ ForwardSend
    \/ UiReceive
    \/ \E req \in dialogs, action \in PermissionActions : UiRespond(req, action)
    \/ ToggleYoloMode
    \/ ToggleAutoConfirm
    \/ AutoApproveSession("B")

SpecPerm == InitPerm /\ [][NextPerm]_vars

\* the same steps after a startup with YOLO and auto-confirm off
SpecToggle == InitToggle /\ [][NextPerm]_vars

(***************************************************************************)
(* Two goroutines with requests pending at the same time, under the        *)
(* default configuration: the fan-in, the UI and the YOLO toggle.          *)
(***************************************************************************)
InitUi ==
    /\ McpStarted
    /\ CallInit
    /\ PermInit(FALSE, FALSE, {}, <<>>)

NextUi ==
    \/ \E c \in Callers : ToolRun(c, "A", "bash", "execute")
    \/ \E c \in Callers : Request(c)
    \/ \E c \in Callers : RequestReturn(c)
    \/ \E c \in Callers : Return(c)
    \/ UiStep

SpecUi == InitUi /\ [][NextUi]_vars

\* a goroutine blocked in `return <-respCh` runs once a verdict is in the channel
SpecUiFair == SpecUi /\ \A c \in Callers : WF_vars(RequestReturn(c))

(***************************************************************************)
(* The supervisor at run time with the shutdown of the MCP clients, which  *)
(* may come at any moment of the tool invocations on one server.           *)
(***************************************************************************)
NextClose ==
    \/ \E c \in Callers : McpToolRun(c, "s1", "A", "m")
    \/ \E c \in Callers : Request(c)
    \/ \E c \in Callers : RunToolStep(c)
    \/ \E c \in Callers : Return(c)
    \/ \E c \in Callers : Publish(c)
    \/ /\ ~mcpClosed
       /\ CloseMCPClients
       /\ UNCHANGED <<callVars, others, fanVars, shutVars, ptyVars, host>>

SpecClose == InitMcp /\ [][NextClose]_vars

(***************************************************************************)
(* The fan-in of two topics into app.events with a UI that takes messages  *)
(* when it likes.  The timer of a forwarder fires, and a send into a       *)
(* channel with room goes through: weak fairness of each forwarder's step  *)
(* out of the inner select.                                                *)
(***************************************************************************)
InitFanIn ==
    /\ McpStarted
    /\ CallInit
    /\ PermInit(FALSE, FALSE, {}, <<>>)

NextFanIn ==
    \/ \E tp \in Topics : TopicEvent(tp)
    \/ \E tp \in Topics : SubReceive(tp)
    \/ \E tp \in Topics : SubSend(tp)
    \/ \E tp \in Topics : SubTimeout(tp)
    \/ Subscribe

SpecFanIn ==
    /\ InitFanIn /\ [][NextFanIn]_vars
    /\ \A tp \in Topics : WF_vars(SubSend(tp) \/ SubTimeout(tp))

(***************************************************************************)
(* The application root: the agent is initialized in New or later from the *)
(* UI, the program subscribes, and Shutdown is called once.                *)
(***************************************************************************)
InitShutdown ==
    /\ McpStarted
    /\ CallInit
    /\ PermInit(FALSE, TRUE, {}, <<>>)

NextShutdown ==
    \/ InitCoderAgent
    \/ SubscribeStart
    \/ \E w \in Watchers : WatcherExit(w)
    \/ ForwardersExit
    \/ TuiExit
    \/ ShutdownCancelAll
    \/ \E w \in Watchers : ShutdownCancelWatcher(w)
    \/ ShutdownWatchersCancelled
    \/ ShutdownWait
    \/ \E l \in LspClients : ShutdownLsp(l)
    \/ ShutdownLspDone
    \/ ShutdownCleanup
    \/ ShutdownCleanupWaited
    \/ ShutdownReturn

SpecShutdown == InitShutdown /\ [][NextShutdown]_vars

(***************************************************************************)
(* Shutdown with the fan-in goroutines one by one: the forwarders of two   *)
(* topics work until they see the cancelled context; the loop of           *)
(* App.Subscribe takes messages when it likes or not at all.  As long as a *)
(* cancelled task can return or Shutdown can go on, one of them does: weak *)
(* fairness of these steps together, and none for the sends, the timeouts  *)
(* and the UI.  The watchers end when they are cancelled.                  *)
(***************************************************************************)
ForwarderStep(tp) ==
    \/ SubReceive(tp)
    \/ SubSend(tp)
    \/ SubTimeout(tp)

\* the steps of App.Shutdown once it was called
ShutdownStep ==
    \/ \E w \in Watchers : ShutdownCancelWatcher(w)
    \/ ShutdownWatchersCancelled
    \/ ShutdownWait
    \/ \E l \in LspClients : ShutdownLsp(l)
    \/ ShutdownLspDone
    \/ ShutdownCleanup
    \/ ShutdownCleanupWaited
    \/ ShutdownReturn

\* what the cancelled tasks and Shutdown do once Shutdown was called
CancelledStep ==
    \/ \E tp \in Topics : SubCancelled(tp)
    \/ \E w \in Watchers : w \in wCancelled /\ WatcherExit(w)
    \/ TuiExit
    \/ ShutdownStep

NextDrain ==
    \/ \E tp \in Topics :
          nPublished["messages"] + nPublished["mcp"] < MaxDrainEvents /\ TopicEvent(tp)
    \/ \E tp \in Topics : tp \notin fwdExited /\ ForwarderStep(tp)
    \/ tuiRunning /\ Subscribe
    \/ InitCoderAgent
    \/ SubscribeStart
    \/ ShutdownCancelAll
    \/ CancelledStep

SpecDrain ==
    /\ InitShutdown /\ [][NextDrain]_vars
    /\ WF_vars(CancelledStep)

(***************************************************************************)
(* The output path of a PTY shell: the shell writes and exits, pumpOutput  *)
(* reads and sends, the terminal listens and updates its buffer.           *)
(***************************************************************************)
InitPty ==
    /\ McpStarted
    /\ CallInit
    /\ PermInit(FALSE, FALSE, {}, <<>>)

NextPtyOutput ==
    \/ ShellOutput
    \/ ProcExit
    \/ PumpRead
    \/ PumpSend
    \/ TerminalListen
    \/ TerminalUpdate

SpecPtyOutput == InitPty /\ [][NextPtyOutput]_vars

(***************************************************************************)
(* The life cycle of a PTY shell: the process exits at any moment, two     *)
(* goroutines call Close, a consumer receives from Done(), keys are        *)
(* written, and the terminal keeps listening to Output().                  *)
(***************************************************************************)
CloseStep(k) ==
    \/ CloseLock(k)
    \/ CloseHangup(k)
    \/ CloseSelect(k)
    \/ CloseKill(k)
    \/ ClosePtmx(k)
    \/ CloseReturn(k)

NextPtyClose ==
    \/ ProcExit
    \/ PumpRead
    \/ WaitSend
    \/ WaitClose
    \/ DoneReceive
    \/ \E k \in Closers : CloseStep(k)
    \/ Write
    \/ TerminalListen
    \/ TerminalUpdate

SpecPtyClose == InitPty /\ [][NextPtyClose]_vars

(***************************************************************************)
(* A shell created through NewPTYShellContext: the context may be done at  *)
(* any moment; the shell works once it was started; the caller can close   *)
(* and read the shell it was given.                                        *)
(***************************************************************************)
PumpStep == PumpRead \/ PumpSend

WaitStep == WaitSend \/ WaitClose

NextPtyStart ==
    \/ CtxDone
    \/ GoNewPTYShell
    \/ GoSend
    \/ NewPTYShellContext
    \/ spawned /\ nProduced < MaxExitBytes /\ ShellOutput
    \/ spawned /\ ProcExit
    \/ spawned /\ PumpStep
    \/ spawned /\ WaitStep
    \/ cret = <<"shell">> /\ CloseStep("k1")
    \/ cret = <<"shell">> /\ TerminalListen
    \/ cret = <<"shell">> /\ TerminalUpdate

SpecPtyStart == InitPty /\ [][NextPtyStart]_vars

(***************************************************************************)
(* The goroutines of a PTY shell up to their end: the shell writes and     *)
(* exits, one caller closes, host signals arrive, and the terminal listens *)
(* as long as it likes.  Each goroutine and each Close gets to run: weak   *)
(* fairness of their steps, none for the terminal, the shell or the host.  *)
(***************************************************************************)
NextPtyExit ==
    \/ nProduced < MaxExitBytes /\ ShellOutput
    \/ ProcExit
    \/ PumpStep
    \/ WaitStep
    \/ ForwardSignal
    \/ CloseStep("k1")
    \/ TerminalListen
    \/ TerminalUpdate

SpecPtyExit ==
    /\ InitPty /\ [][NextPtyExit]_vars
    /\ WF_vars(PumpStep)
    /\ WF_vars(WaitStep)
    /\ WF_vars(ForwardSignal)
    /\ WF_vars(CloseStep("k1"))

(***************************************************************************)
(* Properties.                                                             *)
(***************************************************************************)
\* between lock.Lock() and the deferred lock.Unlock() of restartMCPClient
InRestart(c) ==
    pc[c] \in {"r_take", "r_create", "r_start", "r_set", "r_connected", "r_ok", "r_fail"}

\* C1: a request that was published and blocks its caller is resolved exactly once,
\* by Grant, GrantPersistent, Deny or the skip auto-resolution, and Request
\* returns the verdict of that one resolution.
C1_ResolvedExactlyOnce ==
    \A c \in Callers :
       /\ Len(resolvedBy[c]) <= 1
       /\ Len(respCh[c]) <= 1
       /\ published[c] <= 1
       /\ pc[c] = "blocked" =>
             /\ published[c] = 1
             /\ (ReqOf(c).id \in pendingRequests) <=> (resolvedBy[c] = <<>>)
             /\ resolvedBy[c] = <<>> => respCh[c] = <<>>
             /\ resolvedBy[c] # <<>> => respCh[c] = <<resolvedBy[c][1] # "Deny">>
       /\ (pc[c] = "return" /\ published[c] = 1) =>
             /\ Len(resolvedBy[c]) = 1
             /\ resolvedBy[c][1] \in {"Grant", "GrantPersistent", "Deny", "skip"}
             /\ verdict[c] = (IF resolvedBy[c][1] = "Deny" THEN "false" ELSE "true")
             /\ respCh[c] = <<>>

\* both goroutines had a request published; one was denied in its dialog, the
\* other was released by the skip toggle
C1_Witness ==
    /\ pc["c1"] = "return" /\ published["c1"] = 1 /\ resolvedBy["c1"] = <<"Deny">>
    /\ pc["c2"] = "return" /\ published["c2"] = 1 /\ resolvedBy["c2"] = <<"skip">>

\* C2: the server is called, and a client started or restarted, only in an
\* invocation whose Request returned true; a false verdict ends the invocation with
\* ErrorPermissionDenied before runTool; missing ids end it with no request made.
C2_CallOnlyAfterGrant ==
    \A c \in Callers :
       /\ (nCalls[c] > 0 \/ nRestarts[c] > 0 \/ phase[c] > 0 \/ emitted[c] # <<>>
             \/ startedIn[c] # None
             \/ pc[c] \notin {"idle", "request", "blocked", "return"}) =>
             verdict[c] = "true"
       /\ verdict[c] = "false" => pc[c] = "return" /\ result[c] = "denied"
       /\ (pc[c] = "return" /\ result[c] = "denied") => verdict[c] = "false"
       /\ (pc[c] = "return" /\ result[c] = "ids_required") =>
             /\ verdict[c] = None /\ published[c] = 0 /\ resolvedBy[c] = <<>>
             /\ nCalls[c] = 0 /\ nRestarts[c] = 0
       /\ pc[c] \in {"request", "blocked"} => sess[c] # ""

\* the user denied the request of an MCP tool call
C2_Witness ==
    /\ pc["c1"] = "return" /\ result["c1"] = "denied" /\ kind["c1"] = "mcp"
    /\ resolvedBy["c1"] = <<"Deny">> /\ nCalls["c1"] = 0

\* C3: Request returns true and publishes nothing when the tool or tool:action is
\* in the allow-list, the skip flag is set, the session is auto-approved or a
\* persistent grant for (session, tool, action) exists; otherwise it publishes
\* exactly one request event and blocks until the request is resolved.
C3_ShortCircuit ==
    [][\A c \in Callers :
          /\ (pc[c] = "request" /\ pc'[c] # "request") =>
                IF \/ <<tool[c], "">> \in allowedTools
                   \/ <<tool[c], act[c]>> \in allowedTools
                   \/ skip
                   \/ sess[c] \in autoApproveSessions
                   \/ <<sess[c], tool[c], act[c]>> \in sessionPermissions
                THEN /\ verdict'[c] = "true"
                     /\ published'[c] = 0
                     /\ subCh' = subCh /\ pendingRequests' = pendingRequests
                ELSE /\ pc'[c] = "blocked"
                     /\ verdict'[c] = None
                     /\ published[c] = 0 /\ published'[c] = 1
                     /\ pendingRequests' = pendingRequests \cup {<<c, reqNo[c]>>}
          /\ (pc[c] = "blocked" /\ pc'[c] # "blocked") =>
                /\ resolvedBy[c] # <<>>
                /\ <<c, reqNo[c]>> \notin pendingRequests
      ]_vars

\* a request answered from a persistent grant alone
C3_Witness ==
    /\ pc["c1"] = "return" /\ result["c1"] = "permitted" /\ published["c1"] = 0
    /\ ~skip /\ allowedTools = {} /\ sess["c1"] \notin autoApproveSessions
    /\ <<sess["c1"], tool["c1"], act["c1"]>> \in sessionPermissions

\* C4: SetSkipRequests(true) grants every request pending at that moment, so that
\* its blocked Request returns true and none stays pending; while the flag is
\* on, every Request returns true and publishes nothing; a caller that is blocked
\* while the flag is on gets out of Request.
C4_SkipAutoGrants ==
    /\ \A b \in Callers : (skip /\ pc[b] = "blocked") ~> (pc[b] # "blocked")
    /\ [][/\ (~skip /\ skip') =>
                /\ pendingRequests' = {}
                /\ \A c \in Callers :
                      (pc[c] = "blocked" /\ <<c, reqNo[c]>> \in pendingRequests) =>
                         /\ respCh'[c] = <<TRUE>>
                         /\ pc'[c] = "blocked"
          /\ skip => pendingRequests = {}
          /\ \A c \in Callers :
                (skip /\ pc[c] = "request" /\ pc'[c] # "request") =>
                   /\ verdict'[c] = "true"
                   /\ published'[c] = 0 /\ subCh' = subCh
          /\ \A c \in Callers :
                (pc[c] = "blocked" /\ pc'[c] # "blocked" /\ resolvedBy[c] = <<"skip">>) =>
                   verdict'[c] = "true"
         ]_vars

\* the toggle released two requests that were pending together
C4_Witness ==
    /\ skip
    /\ \A c \in Callers :
          pc[c] = "blocked" /\ resolvedBy[c] = <<"skip">> /\ respCh[c] = <<TRUE>>

\* C5: a persistent grant is recorded only by GrantPersistent and for exactly the
\* (session, tool, action) of the answered request; Grant, Deny and the skip
\* resolution record none; a Request that no allow-list entry, skip flag or
\* auto-approval answers goes unpublished exactly when its own triple was granted.
C5_GrantScope ==
    [][/\ \A c \in Callers :
             (/\ Len(resolvedBy'[c]) > Len(resolvedBy[c])
              /\ resolvedBy'[c][Len(resolvedBy'[c])] \in {"Grant", "Deny", "skip"}) =>
                sessionPermissions' = sessionPermissions
       /\ sessionPermissions' # sessionPermissions =>
             \E d \in dialogs :
                /\ d \notin dialogs'
                /\ sessionPermissions' =
                      sessionPermissions \cup {<<d.session, d.tool, d.action>>}
       /\ \A c \in Callers :
             (/\ pc[c] = "request" /\ pc'[c] # "request"
              /\ <<tool[c], "">> \notin allowedTools
              /\ <<tool[c], act[c]>> \notin allowedTools
              /\ ~skip
              /\ sess[c] \notin autoApproveSessions) =>
                IF <<sess[c], tool[c], act[c]>> \in sessionPermissions
                   THEN published'[c] = 0 /\ verdict'[c] = "true"
                   ELSE published'[c] = 1 /\ pc'[c] = "blocked"
      ]_vars

\* with a grant for (A, edit, execute) recorded, the request (A, edit, write) blocks
C5_Witness ==
    /\ sessionPermissions = {<<"A", "edit", "execute">>}
    /\ pc["c1"] = "blocked" /\ published["c1"] = 1
    /\ sess["c1"] = "A" /\ tool["c1"] = "edit" /\ act["c1"] = "write"

\* C6: no two callers are inside the locked part of restartMCPClient for the same
\* server at the same time.
C6_SingleFlight ==
    \A c1, c2 \in Callers :
       (c1 # c2 /\ InRestart(c1) /\ InRestart(c2)) => srv[c1] # srv[c2]

\* C7: two invocations that run together on one server, both begun while it was in
\* Error state and neither having met a failure, make one restart observable on
\* the MCP topic between them.
C7_OneRestartObservable ==
    \A c1, c2 \in Callers :
       (/\ c1 # c2
        /\ srv[c1] # "" /\ srv[c1] = srv[c2]
        /\ startedIn[c1] = MCPStateError /\ startedIn[c2] = MCPStateError
        /\ err[c1] = NoErr /\ err[c2] = NoErr) =>
          Len(emitted[c1]) + Len(emitted[c2]) <= 1

\* C8: an invocation of runTool calls the tool at most twice and restarts the
\* client at most twice (once lazily, once after a failed call); the restart after
\* a failed call follows a transient transport error only, and after the second
\* call it returns.
C8_RetryBudget ==
    \A c \in Callers :
       /\ nCalls[c] <= 2 /\ nRestarts[c] <= 2
       /\ nRestarts[c] <= nCalls[c] + 1
       /\ phase[c] = 0 => nRestarts[c] = 0 /\ nCalls[c] <= 1
       /\ phase[c] = 1 => nRestarts[c] = 1 /\ nCalls[c] <= 1
       /\ phase[c] = 2 => nCalls[c] >= 1
       /\ (phase[c] = 2 /\ nCalls[c] = 1) =>
             \E p \in TransientPatterns : \E i \in 1..Len(err[c]) : ToLower(err[c][i]) = p
       /\ nCalls[c] = 2 => phase[c] = 2 /\ pc[c] = "return"
       /\ (pc[c] = "return" /\ nCalls[c] = 1 /\ phase[c] < 2 /\ result[c] = "error") =>
             err[c] = ErrToolFailed

\* a lazy restart, a transient error, a second restart and the retried call
C8_Witness ==
    \E c \in Callers :
       pc[c] = "return" /\ result[c] = "ok" /\ nCalls[c] = 2 /\ nRestarts[c] = 2

\* C9: an invocation that began on a Connected server, met a transient error,
\* restarted once and returned the retried result has put Error, Starting and
\* Connected on the MCP topic, in this order.
C9_RestartEvents ==
    \A c \in Callers :
       (/\ pc[c] = "return" /\ result[c] = "ok"
        /\ startedIn[c] = MCPStateConnected
        /\ phase[c] = 2 /\ nRestarts[c] = 1) =>
          emitted[c] = <<MCPStateError, MCPStateStarting, MCPStateConnected>>

\* C10: once doGetMCPTools has returned, a disabled server is Disabled, a server
\* whose create, Start, Initialize and ListTools all succeeded is Connected, and a
\* server with a failed step is in Error.
C10_StartupStates ==
    startupDone =>
       \A s \in Servers :
          mcpStates[s] = IF s \in cfgDisabled THEN MCPStateDisabled
                         ELSE IF gfailed[s] THEN MCPStateError
                         ELSE MCPStateConnected

\* no thread is between mcpStates.Set and mcpBroker.Publish for server s
Settled(s) ==
    \A t \in Threads : IF pub[t] = Nil THEN TRUE ELSE pub[t][1] # s

\* C11: a subscriber of the MCP topic gets the state changes of a server in the
\* order they were applied to its record, so that, whenever no change is on its
\* way to the broker, the last event it got for a server carries the state the
\* record holds.
C11_LastEventCurrent ==
    \A s \in Servers : Settled(s) => lastEvent[s] = mcpStates[s]

\* C12: once CloseMCPClients has run, no server's recorded state changes any more
\* and no further state-change event reaches the subscribers, whatever restart
\* or tool call is running or starts later.
C12_ClosedIsFinal ==
    [][mcpClosed => (mcpStates' = mcpStates /\ lastEvent' = lastEvent)]_vars

\* the numbers of the events of topic tp in a sequence of messages, in order
RECURSIVE Numbers(_, _)
Numbers(q, tp) ==
    IF q = <<>> THEN <<>>
    ELSE (IF Head(q)[1] = tp THEN <<Head(q)[2]>> ELSE <<>>) \o Numbers(Tail(q), tp)

\* the events of topic tp from the UI back to the broker: the last one the UI
\* took, those in app.events, the one the forwarder holds, those it has not
\* received yet
Pipeline(tp) ==
    <<uiSeen[tp]>> \o Numbers(events, tp)
                  \o (IF msg[tp] = Nil THEN <<>> ELSE <<msg[tp][2]>>)
                  \o Numbers(topicCh[tp], tp)

Increasing(q) == \A i \in 1..(Len(q) - 1) : q[i] < q[i + 1]

\* C13: each forwarder passes the events of its topic on in the order it received
\* them; a timeout loses the message the forwarder holds and nothing else; a
\* forwarder that holds a message gets rid of it, whatever the UI and the other
\* topic do.
C13_FanIn ==
    /\ [](\A tp \in Topics : Increasing(Pipeline(tp)))
    /\ [][\A tp \in Topics :
            (msg[tp] # Nil /\ msg'[tp] = Nil) =>
               /\ topicCh' = topicCh
               /\ \/ events' = Append(events, msg[tp])
                  \/ events' = events /\ Len(events) = UiCap]_vars
    /\ \A tp \in Topics : []<>(msg[tp] = Nil)

\* the UI channel is full, the forwarder of one topic has dropped a message and
\* holds the next one, while the other topic has published nothing
C13_Witness ==
    /\ Len(events) = UiCap
    /\ nPublished["messages"] = 0
    /\ nDropped["mcp"] > 0
    /\ msg["mcp"] # Nil

\* q is an initial part of r
IsPrefix(q, r) == Len(q) <= Len(r) /\ \A i \in 1..Len(q) : q[i] = r[i]

\* C14: Shutdown first cancels the agent's requests, then cancels every LSP
\* watcher and waits until all watcher tasks have exited, then shuts down each
\* LSP client, and only then invokes the recorded cleanup functions, once each,
\* in the order they were registered; each cleanup has done its work when the
\* next one is invoked.
C14_ShutdownOrder ==
    /\ wCancelled # {} => (coderAgent => agentCancelled)
    /\ lspDown # {} => (wCancelled = Watchers /\ wExited = Watchers)
    /\ invoked # <<>> => lspDown = LspClients
    /\ IsPrefix(invoked, cleanupFuncs)
    /\ \A i, j \in 1..Len(cleanupFuncs) : cleanupFuncs[i] = cleanupFuncs[j] => i = j
    /\ eventsCancelled => \E i \in 1..Len(invoked) : invoked[i] = "events"
    /\ mcpClosed => \E i \in 1..Len(invoked) : invoked[i] = "mcp"
    /\ tuiCancelled => \E i \in 1..Len(invoked) : invoked[i] = "tui"
    /\ \A i \in 1..(Len(invoked) - 1) :
          /\ invoked[i] = "events" => ~fwdRunning
          /\ invoked[i] = "mcp" => mcpClosed
          /\ invoked[i] = "tui" => ~tuiRunning
    /\ spc = "done" => invoked = cleanupFuncs

\* Shutdown has returned after invoking the three cleanup functions
C14_Witness ==
    /\ spc = "done" /\ Len(invoked) = 3
    /\ ~fwdRunning /\ mcpClosed /\ ~tuiRunning
    /\ agentCancelled /\ wExited = Watchers /\ lspDown = LspClients

\* the place of a cleanup function in the order fan-in, MCP clients, UI hand-off
Rank(f) == IF f = "events" THEN 1 ELSE IF f = "mcp" THEN 2 ELSE 3

\* C14 as stated: the cleanup functions are invoked in the order fan-in
\* subscribers stopped, MCP clients closed, UI hand-off cancelled.
C14_FixedOrder ==
    \A i, j \in 1..Len(invoked) : i < j => Rank(invoked[i]) < Rank(invoked[j])

\* C15: the Output() stream gets closed once the shell process has exited or
\* Close() was called, however the PTY read ends; pumpOutput is the only one to
\* close it, so it has closed it when it returns.
C15_OutputClosed ==
    ppc = "returned" => outClosed

\* C16: a consumer receiving from Done() gets the exit error exactly once and
\* only then sees the stream closed, also when Close() is called before or while
\* the process exits.
C16_DoneDelivers ==
    /\ doneGot <= 1
    /\ doneSawClosed => doneGot = 1

\* C17: over any number of Close() calls, one after another or at the same
\* time, the PTY file is closed exactly once, after the hangup was sent, the
\* graceful wait ended and the kill was issued; a Close that finds the shell
\* closed changes nothing and returns nil.
C17_CloseOnce ==
    /\ [](nFdClose <= 1)
    /\ []((nFdClose = 1) = ~fdOpen)
    /\ [](~fdOpen => (hupSent /\ graceEnded /\ killIssued))
    /\ [](killIssued => graceEnded)
    /\ [](graceEnded => hupSent)
    /\ [][\A k \in Closers :
            (kpc[k] = "idle" /\ kpc'[k] # "idle" /\ ~started) =>
               /\ kpc'[k] = "returned"
               /\ UNCHANGED <<fdVars, closeHist, procVars, pumpVars, waitVars, kptmx>>]_vars
    /\ [](\A k \in Closers : kpc[k] = "returned" => (~started /\ ~ptmxSet))

\* both callers have returned from Close, one of them having closed the file
\* while the other found the shell closed
C17_Witness ==
    /\ \A k \in Closers : kpc[k] = "returned"
    /\ nFdClose = 1 /\ ~fdOpen
    /\ hupSent /\ graceEnded /\ killIssued

\* C18: a Write on a shell whose process has exited returns the already-closed
\* error and writes nothing, whether the process exited by itself or through
\* Close().
C18_WriteAfterExit ==
    IF writeResult = Nil THEN TRUE
    ELSE writeResult[2] => writeResult[1] = ErrClosedPipe

\* the bytes of a sequence of chunks, in order
RECURSIVE Flatten(_)
Flatten(q) == IF q = <<>> THEN <<>> ELSE Head(q) \o Flatten(Tail(q))

\* the bytes of the message on the way to Update
InFlight == IF tmsg = Nil THEN <<>> ELSE IF tmsg[1] = "output" THEN tmsg[2] ELSE <<>>

C20_BufferBounded ==
    /\ [](Len(buffer) <= BufLimit + ChunkMax)
    /\ [][(tpc = "msg" /\ tpc' = "listen" /\ Len(buffer) > BufLimit) =>
             /\ Len(buffer') = Len(buffer) - Len(buffer) \div 2 + Len(InFlight)
             /\ Len(buffer') <= BufLimit + ChunkMax]_vars

\* the buffer was cut and is above the limit again
C20_Witness ==
    /\ buffer # <<>> /\ Head(buffer) > 1
    /\ Len(buffer) > BufLimit


(***************************************************************************)
(* The OAuth store (internal/auth/auth.go).                                *)
(* Times are in seconds: Expires is now + expires_in, and the comparison   *)
(* of AccessToken is the one of the code in another unit.                  *)
(***************************************************************************)
\* readAll: a missing file, and a file that does not parse, give an empty map
readAll(f) == IF f.valid THEN f.m ELSE EmptyStore

\* all[providerID] = info
SetEntryKeep(m, p, info) == m

SetEntry(m, p, info) == [m EXCEPT ![p] = info]

\* the tokens the endpoint hands out with its n-th answer
AccessName(n) == <<"a1", "a2", "a3", "a4">>[n]

RefreshName(n) == <<"r1", "r2", "r3", "r4">>[n]

\* time passes
Tick ==
    /\ now < MaxTime
    /\ now' = now + 1
    /\ UNCHANGED <<authRest, authFile, apc, all, setArg, ret, sent, nAccess, lastRefresh,
                   readerSaw>>

\* AccessToken up to the decision to refresh: Get, the type check, the expiry check
AccessTokenGet ==
    LET info == readAll(authFile)["anthropic"]
    IN  /\ apc["tok"] \in {"idle", "returned"}
        /\ nAccess < MaxCalls
        /\ nAccess' = nAccess + 1
        /\ IF info.type # "oauth"
           THEN /\ ret' = [access |-> "", ok |-> TRUE, expires |-> 0, at |-> now,
                           refreshed |-> FALSE]
                /\ apc' = [apc EXCEPT !["tok"] = "returned"]
                /\ UNCHANGED <<sent, setArg>>
           ELSE IF info.access # "" /\ info.expires > now
           THEN /\ ret' = [access |-> info.access, ok |-> TRUE, expires |-> info.expires,
                           at |-> now, refreshed |-> FALSE]
                /\ apc' = [apc EXCEPT !["tok"] = "returned"]
                /\ UNCHANGED <<sent, setArg>>
           ELSE /\ sent' = sent + 1
                /\ setArg' = [setArg EXCEPT !["tok"] = [p |-> "anthropic", info |-> info]]
                /\ apc' = [apc EXCEPT !["tok"] = "http"]
                /\ UNCHANGED ret
        /\ UNCHANGED <<authRest, authFile, now, all, lastRefresh, readerSaw>>

\* the answer of the token endpoint: a transport error or a status outside 2xx,
\* or a token response, from which the updated record is built
AccessTokenResponse ==
    /\ apc["tok"] = "http"
    /\ \/ /\ ret' = [access |-> "", ok |-> FALSE, expires |-> 0, at |-> now,
                     refreshed |-> FALSE]
          /\ apc' = [apc EXCEPT !["tok"] = "returned"]
          /\ UNCHANGED setArg
       \/ \E e \in ExpiresIn :
             /\ setArg' = [setArg EXCEPT !["tok"].info =
                              OauthInfo("oauth", RefreshName(sent), AccessName(sent), now + e)]
             /\ apc' = [apc EXCEPT !["tok"] = "set"]
             /\ UNCHANGED ret
    /\ UNCHANGED <<authRest, authFile, now, all, sent, nAccess, lastRefresh, readerSaw>>

\* Set: all, err := readAll()
SetReadAll(t) ==
    /\ apc[t] = "set"
    /\ all' = [all EXCEPT ![t] = readAll(authFile)]
    /\ apc' = [apc EXCEPT ![t] = "trunc"]
    /\ UNCHANGED <<authRest, authFile, now, setArg, ret, sent, nAccess, lastRefresh,
                   readerSaw>>

\* Set: all[providerID] = info; writeAll: os.WriteFile opens the file with O_TRUNC
SetTruncate(t) ==
    /\ apc[t] = "trunc"
    /\ all' = [all EXCEPT ![t] = SetEntry(all[t], setArg[t].p, setArg[t].info)]
    /\ authFile' = [valid |-> FALSE, m |-> EmptyStore]
    /\ apc' = [apc EXCEPT ![t] = "write"]
    /\ UNCHANGED <<authRest, now, setArg, ret, sent, nAccess, lastRefresh, readerSaw>>

\* writeAll: os.WriteFile writes the marshalled map
SetWriteData(t) ==
    /\ apc[t] = "write"
    /\ authFile' = [valid |-> TRUE, m |-> all[t]]
    /\ apc' = [apc EXCEPT ![t] = "setdone"]
    /\ UNCHANGED <<authRest, now, all, setArg, ret, sent, nAccess, lastRefresh, readerSaw>>

\* AccessToken: return updated.Access, nil
AccessTokenReturn ==
    /\ apc["tok"] = "setdone"
    /\ ret' = [access |-> setArg["tok"].info.access, ok |-> TRUE,
               expires |-> setArg["tok"].info.expires, at |-> now, refreshed |-> TRUE]
    /\ lastRefresh' = setArg["tok"].info
    /\ apc' = [apc EXCEPT !["tok"] = "returned"]
    /\ UNCHANGED <<authRest, authFile, now, all, setArg, sent, nAccess, readerSaw>>

\* the records two commands store: exchangeCmd for "anthropic", another for "openai"
WriterArg(t) ==
    IF t = "w1" THEN [p |-> "anthropic", info |-> OauthInfo("oauth", "r1", "a1", MaxTime)]
    ELSE [p |-> "openai", info |-> OauthInfo("oauth", "r2", "a2", MaxTime)]

\* a command calls auth.Set
SetStart(t) ==
    /\ apc[t] = "idle"
    /\ setArg' = [setArg EXCEPT ![t] = WriterArg(t)]
    /\ apc' = [apc EXCEPT ![t] = "set"]
    /\ UNCHANGED <<authRest, authFile, now, all, ret, sent, nAccess, lastRefresh, readerSaw>>

\* a concurrent reader calls Get("copilot")
ReaderGet ==
    /\ readerSaw' = readAll(authFile)
    /\ UNCHANGED <<authRest, authFile, now, apc, all, setArg, ret, sent, nAccess, lastRefresh>>

\* what auth.json holds for "anthropic" at start: nothing, an API key, an OAuth
\* record that has expired, one that is valid for two more seconds
StoredRecords ==
    {Absent, OauthInfo("api", "", "", 0), OauthInfo("oauth", "r0", "a0", 0),
     OauthInfo("oauth", "r0", "a0", 2)}

InitAuth ==
    /\ McpStarted
    /\ AgentInit
    /\ PermInit(FALSE, FALSE, {}, <<>>)
    /\ \E r \in StoredRecords : AuthInit([EmptyStore EXCEPT !["anthropic"] = r])
    /\ InputInit
    /\ ConfInit(FALSE, EmptyDoc)
    /\ ModeInit("")
    /\ NiInit
    /\ DrainInit
    /\ SigInit
    /\ NewInit
    /\ SelInit

NextAuth ==
    \/ Tick
    \/ AccessTokenGet
    \/ AccessTokenResponse
    \/ SetReadAll("tok")
    \/ SetTruncate("tok")
    \/ SetWriteData("tok")
    \/ AccessTokenReturn

SpecAuth == InitAuth /\ [][NextAuth]_vars

\* auth.json holds a record for "copilot"; two commands store records for two
\* other providers while a reader looks "copilot" up
CopilotRecord == OauthInfo("oauth", "r9", "a9", MaxTime)

InitStore ==
    /\ McpStarted
    /\ AgentInit
    /\ PermInit(FALSE, FALSE, {}, <<>>)
    /\ AuthInit([EmptyStore EXCEPT !["copilot"] = CopilotRecord])
    /\ InputInit
    /\ ConfInit(FALSE, EmptyDoc)
    /\ ModeInit("")
    /\ NiInit
    /\ DrainInit
    /\ SigInit
    /\ NewInit
    /\ SelInit

NextStore ==
    \/ \E t \in {"w1", "w2"} : SetStart(t) \/ SetReadAll(t) \/ SetTruncate(t) \/ SetWriteData(t)
    \/ ReaderGet

SpecStore == InitStore /\ [][NextStore]_vars

\* C21: whenever AccessToken returns a token with a nil error, the expiry recorded
\* for that token is strictly later than the time of return, for a stored token
\* as for a refreshed one, whatever expires_in the endpoint answered.
C21_ExpiryInFuture ==
    (ret.ok /\ ret.access # "") => ret.expires > ret.at

C23_WritesSerialized ==
    /\ (apc["w1"] = "setdone" /\ apc["w2"] = "setdone")
          => /\ readAll(authFile)["anthropic"] = WriterArg("w1").info
             /\ readAll(authFile)["openai"] = WriterArg("w2").info
    /\ readerSaw["copilot"] = CopilotRecord


(***************************************************************************)
(* The input history (App.LoadInputHistory, App.AppendInputHistory).       *)
(* Strings and the file are sequences of bytes.                            *)
(***************************************************************************)
IsSpace(c) == c \in {SP, LF}

\* strings.TrimSpace
RECURSIVE TrimLeft(_)
TrimLeft(s) == IF s # <<>> /\ IsSpace(Head(s)) THEN TrimLeft(Tail(s)) ELSE s

RECURSIVE TrimRight(_)
TrimRight(s) ==
    IF s # <<>> /\ IsSpace(s[Len(s)]) THEN TrimRight(SubSeq(s, 1, Len(s) - 1)) ELSE s

TrimSpace(s) == TrimRight(TrimLeft(s))

\* json.Marshal of a string: quotes around the text, a line feed written as \n,
\* quote and backslash escaped
RECURSIVE Escape(_)
Escape(s) ==
    IF s = <<>> THEN <<>>
    ELSE (IF Head(s) = LF THEN <<BSLASH, "n">>
          ELSE IF Head(s) \in {QUOTE, BSLASH} THEN <<BSLASH, Head(s)>>
          ELSE <<Head(s)>>) \o Escape(Tail(s))

Marshal(s) == <<QUOTE>> \o Escape(s) \o <<QUOTE>>

\* json.Unmarshal of a line into a string: <<TRUE, text>>, or <<FALSE, <<>>>> for
\* a line that is not a JSON string
RECURSIVE Unescape(_)
Unescape(s) ==
    IF s = <<>> THEN <<TRUE, <<>>>>
    ELSE IF Head(s) = QUOTE THEN <<FALSE, <<>>>>
    ELSE IF Head(s) = BSLASH
    THEN IF Len(s) < 2 THEN <<FALSE, <<>>>>
         ELSE LET rest == Unescape(SubSeq(s, 3, Len(s)))
                  c == IF s[2] = "n" THEN LF ELSE s[2]
              IN  IF s[2] \in {"n", QUOTE, BSLASH} /\ rest[1]
                  THEN <<TRUE, <<c>> \o rest[2]>> ELSE <<FALSE, <<>>>>
    ELSE LET rest == Unescape(Tail(s))
         IN  IF Head(s) # LF /\ rest[1] THEN <<TRUE, <<Head(s)>> \o rest[2]>>
             ELSE <<FALSE, <<>>>>

Unmarshal(line) ==
    IF Len(line) >= 2 /\ line[1] = QUOTE /\ line[Len(line)] = QUOTE
    THEN Unescape(SubSeq(line, 2, Len(line) - 1))
    ELSE <<FALSE, <<>>>>

\* bufio.Scanner with the default split function: the lines of the file, without
\* their line feeds; a last line without line feed counts when it is not empty
RECURSIVE Lines(_, _)
Lines(bytes, cur) ==
    IF bytes = <<>> THEN (IF cur = <<>> THEN <<>> ELSE <<cur>>)
    ELSE IF Head(bytes) = LF THEN <<cur>> \o Lines(Tail(bytes), <<>>)
    ELSE Lines(Tail(bytes), Append(cur, Head(bytes)))

\* the loop of LoadInputHistory: lines that do not decode and empty strings are skipped
RECURSIVE Loaded(_)
Loaded(ls) ==
    IF ls = <<>> THEN <<>>
    ELSE LET u == Unmarshal(Head(ls))
         IN  (IF u[1] /\ u[2] # <<>> THEN <<u[2]>> ELSE <<>>) \o Loaded(Tail(ls))

\* LoadInputHistory on the history h
LoadInputHistory(h) == h \o Loaded(Lines(histFile, <<>>))

\* AppendInputHistory(x); fails: MkdirAll, OpenFile or Write returns an error
AppendDedup(entry) ==
    InputHistory # <<>> /\ InputHistory[Len(InputHistory)] = entry

AppendInputHistory(x, fails) ==
    LET entry == TrimSpace(x)
    IN  /\ Len(submitted) < MaxAppends
        /\ submitted' = Append(submitted, x)
        /\ IF entry = <<>> \/ AppendDedup(entry)
           THEN /\ lastAppend' = <<x, TRUE>>
                /\ UNCHANGED <<InputHistory, histFile>>
           ELSE /\ InputHistory' = Append(InputHistory, entry)
                /\ lastAppend' = <<x, ~fails>>
                /\ histFile' = IF fails THEN histFile
                               ELSE histFile \o Marshal(entry) \o <<LF>>
        /\ UNCHANGED <<inputRest, nBoots>>

\* the process ends and starts again: New makes an empty history and loads the file
Restart ==
    /\ nBoots < MaxBoots
    /\ nBoots' = nBoots + 1
    /\ InputHistory' = LoadInputHistory(<<>>)
    /\ UNCHANGED <<inputRest, histFile, submitted, lastAppend>>

InitInput ==
    /\ McpStarted
    /\ CallInit
    /\ PermInit(FALSE, FALSE, {}, <<>>)

NextInput ==
    \/ \E x \in Entries, fails \in BOOLEAN : AppendInputHistory(x, fails)
    \/ Restart

SpecInput == InitInput /\ [][NextInput]_vars

\* C24: for every submitted (non-empty) entry x, AppendInputHistory(x) followed by
\* a restart and LoadInputHistory yields a history whose last element is x.
C24_RoundTrip ==
    [][(nBoots' = nBoots + 1 /\ lastAppend # Nil /\ lastAppend[1] # <<>>)
         => /\ InputHistory' # <<>>
            /\ InputHistory'[Len(InputHistory')] = lastAppend[1]]_vars

\* q is r with some elements left out
RECURSIVE IsSubseq(_, _)
IsSubseq(q, r) ==
    IF q = <<>> THEN TRUE
    ELSE IF r = <<>> THEN FALSE
    ELSE IF Head(q) = Head(r) THEN IsSubseq(Tail(q), Tail(r))
    ELSE IsSubseq(q, Tail(r))

\* C25: after any sequence of loads, AppendInputHistory calls (failed writes
\* included) and restarts, the input history holds no empty entry and no two
\* equal consecutive entries, and its entries are in the order of submission.
C25_HistoryShape ==
    /\ \A i \in 1..Len(InputHistory) : InputHistory[i] # <<>>
    /\ \A i \in 1..(Len(InputHistory) - 1) : InputHistory[i] # InputHistory[i + 1]
    /\ IsSubseq(InputHistory, [i \in 1..Len(submitted) |-> TrimSpace(submitted[i])])


(***************************************************************************)
(* The config data file (Config.SetConfigField).                           *)
(* A JSON document is the function from its scalar paths to their values.  *)
(***************************************************************************)
\* sjson.Set(data, key, value): the paths at or below key take the new value, the
\* others keep theirs
sjsonSetFresh(doc, k, v) ==
    [q \in LeafPaths |->
        IF q = k THEN v
        ELSE IF IsPrefix(k, q) THEN v[SubSeq(q, Len(k) + 1, Len(q))]
        ELSE Missing]

sjsonSet(doc, k, v) ==
    [q \in LeafPaths |->
        IF q = k THEN v
        ELSE IF IsPrefix(k, q) THEN v[SubSeq(q, Len(k) + 1, Len(q))]
        ELSE doc[q]]

\* the text SetConfigField starts from: the file, or "{}" when there is none
ReadData == IF cfgFile.exists THEN cfgFile.doc ELSE EmptyDoc

\* the body of SetConfigField(k, v); fails: ReadFile or WriteFile returns an error
\* (other than "not exist") and the file stays as it is
WriteConfig(k, v, fails) ==
    /\ lastSet' = <<k, v, ~fails>>
    /\ cfgFile' = IF fails THEN cfgFile
                  ELSE [exists |-> TRUE, doc |-> sjsonSet(ReadData, k, v)]

SetConfigField(k, v, fails) ==
    /\ nSets < MaxSets
    /\ nSets' = nSets + 1
    /\ WriteConfig(k, v, fails)
    /\ UNCHANGED confRest

\* a read of path q from the file
ReadField(f, q) == IF f.exists THEN f.doc[q] ELSE Missing

\* the config data files a run starts with: none, one with a mode, one with a
\* mode and a provider
StartDocs ==
    {[EmptyDoc EXCEPT ![<<"lash", "mode">>] = "Auto"],
     [EmptyDoc EXCEPT ![<<"lash", "mode">>] = "Auto",
                      ![<<"providers", "anthropic", "api_key">>] = "k2",
                      ![<<"providers", "anthropic", "type">>] = "api"]}

InitConfig ==
    /\ McpStarted
    /\ AgentInit
    /\ PermInit(FALSE, FALSE, {}, <<>>)
    /\ AuthInit(EmptyStore)
    /\ InputInit
    /\ \/ ConfInit(FALSE, EmptyDoc)
       \/ \E d \in StartDocs : ConfInit(TRUE, d)
    /\ ModeInit("")
    /\ NiInit
    /\ DrainInit
    /\ SigInit
    /\ NewInit
    /\ SelInit

NextConfig ==
    \E k \in ConfigKeys : \E v \in ValuesOf(k), fails \in BOOLEAN : SetConfigField(k, v, fails)

SpecConfig == InitConfig /\ [][NextConfig]_vars

\* C26: with no concurrent writer, SetConfigField(k, v) followed by a read of k
\* from the config data file yields v, and every other key of the file (a path
\* that is neither k, nor below k, nor above k) keeps the value it had; a missing
\* file is treated as an empty object.
C26_SetThenRead ==
    [][(nSets' = nSets + 1 /\ lastSet'[3])
         => \A q \in LeafPaths :
               LET k == lastSet'[1]
                   v == lastSet'[2]
               IN  /\ q = k => ReadField(cfgFile', q) = v
                   /\ (q # k /\ IsPrefix(k, q))
                         => ReadField(cfgFile', q) = v[SubSeq(q, Len(k) + 1, Len(q))]
                   /\ (~IsPrefix(k, q) /\ ~IsPrefix(q, k))
                         => ReadField(cfgFile', q) = ReadField(cfgFile, q)]_vars

C26_Witness ==
    /\ nSets = 2
    /\ lastSet # Nil /\ lastSet[3] /\ lastSet[1] = <<"lash", "yolo">>
    /\ cfgFile.exists
    /\ cfgFile.doc[<<"lash", "yolo">>] = "true"
    /\ cfgFile.doc[<<"lash", "mode">>] = "Agent"
    /\ cfgFile.doc[<<"providers", "anthropic", "api_key">>] = Missing


(***************************************************************************)
(* The mode (Config.ActiveMode, Config.SetActiveMode, the ToggleMode key). *)
(***************************************************************************)
\* the value of c.Lash.Mode after the configuration was read from file f
LoadMode(f) ==
    IF ReadField(f, <<"lash", "mode">>) = Missing THEN ""
    ELSE ReadField(f, <<"lash", "mode">>)

\* appModel.Init: the mode comes from the configuration
ModelInit ==
    /\ ~uiInit
    /\ uiInit' = TRUE
    /\ activeMode' = ActiveMode(lashMode)
    /\ appMode' = ActiveMode(lashMode)
    /\ UNCHANGED <<modeRest, confVars, lashMode>>

\* the switch of the ToggleMode key
NextMode(m) == IF m = "Shell" THEN "Agent" ELSE IF m = "Agent" THEN "Auto" ELSE "Shell"

\* the ToggleMode key: cycle, copy to app.Mode, SetActiveMode (memory, then file)
ToggleMode(fails) ==
    /\ uiInit
    /\ activeMode' = NextMode(activeMode)
    /\ appMode' = NextMode(activeMode)
    /\ lashMode' = NextMode(activeMode)
    /\ WriteConfig(<<"lash", "mode">>, NextMode(activeMode), fails)
    /\ UNCHANGED <<modeRest, nSets, uiInit>>

\* the process ends and starts again: the configuration is read, New and the UI
\* model are built
RestartMode ==
    /\ lashMode' = LoadMode(cfgFile)
    /\ appMode' = ActiveMode(LoadMode(cfgFile))
    /\ activeMode' = "Auto"
    /\ uiInit' = FALSE
    /\ UNCHANGED <<modeRest, confVars>>

InitMode ==
    /\ McpStarted
    /\ AgentInit
    /\ PermInit(FALSE, FALSE, {}, <<>>)
    /\ AuthInit(EmptyStore)
    /\ InputInit
    /\ \/ ConfInit(FALSE, EmptyDoc) /\ ModeInit("")
       \/ \E m \in PersistedModes :
             /\ ConfInit(TRUE, [EmptyDoc EXCEPT ![<<"lash", "mode">>] = m])
             /\ ModeInit(m)
    /\ NiInit
    /\ DrainInit
    /\ SigInit
    /\ NewInit
    /\ SelInit

\* the steps of the mode, and the UI's other toggle that writes the same file
NextModeSpec ==
    \/ ModelInit
    \/ \E fails \in BOOLEAN : ToggleMode(fails)
    \/ RestartMode
    \/ \E v \in ValuesOf(<<"lash", "yolo">>), fails \in BOOLEAN :
          SetConfigField(<<"lash", "yolo">>, v, fails)

SpecMode == InitMode /\ [][NextModeSpec]_vars

\* C29: in every reachable state the active mode is one of Shell, Agent, Auto:
\* startup takes the persisted mode, or Auto when none is persisted, and each
\* toggle moves Shell to Agent, Agent to Auto and Auto to Shell while keeping the
\* application root's mode equal to the UI's active mode.
C29_ModeValid ==
    /\ [](activeMode \in Modes /\ appMode \in Modes)
    /\ [](uiInit => (activeMode = ActiveMode(lashMode) /\ appMode = activeMode))
    /\ [][(uiInit /\ uiInit' /\ activeMode' # activeMode)
            => /\ activeMode \in Modes => activeMode' = NextMode(activeMode)
               /\ appMode' = activeMode']_vars


(***************************************************************************)
(* A non-interactive run (App.RunNonInteractive) and the agent feeding it. *)
(* A content is a sequence of bytes; byte j of the run is the number j.    *)
(***************************************************************************)
\* bytes of assistant text produced so far
RECURSIVE TextLen(_)
TextLen(ms) == IF ms = <<>> THEN 0 ELSE Len(Head(ms)) + TextLen(Tail(ms))

\* the agent starts a turn: a new, empty assistant message
AgentTurn ==
    /\ ~agentDone
    /\ Len(msgs) < MaxMsgs
    /\ msgs' = Append(msgs, <<>>)
    /\ UNCHANGED <<niRest, agentDone, messageEvents, done, npc, readBts, stdout, final>>

\* a content part arrives: it is appended to the message of the turn and an update
\* is published to the subscribers (dropped when the subscription is full)
AgentAppend ==
    /\ ~agentDone
    /\ msgs # <<>>
    /\ TextLen(msgs) < MaxText
    /\ LET c == Append(msgs[Len(msgs)], TextLen(msgs) + 1)
       IN  /\ msgs' = [msgs EXCEPT ![Len(msgs)] = c]
           /\ messageEvents' = IF Len(messageEvents) < EvCap
                               THEN Append(messageEvents, c) ELSE messageEvents
    /\ UNCHANGED <<niRest, agentDone, done, npc, readBts, stdout, final>>

\* the provider signals the end of the last turn: the result, with the last
\* assistant message, is sent on the channel Run returned
AgentFinish ==
    /\ ~agentDone
    /\ msgs # <<>>
    /\ agentDone' = TRUE
    /\ done' = <<msgs[Len(msgs)]>>
    /\ UNCHANGED <<niRest, msgs, messageEvents, npc, readBts, stdout, final>>

\* s[n:] of Go, for n <= len(s)
From(c, n) == SubSeq(c, n + 1, Len(c))

\* case event := <-messageEvents
NiEvent ==
    /\ npc = "loop"
    /\ messageEvents # <<>>
    /\ messageEvents' = Tail(messageEvents)
    /\ LET c == Head(messageEvents)
       IN  IF Len(c) < readBts
           THEN /\ npc' = "panic"
                /\ UNCHANGED <<readBts, stdout>>
           ELSE /\ stdout' = stdout \o From(c, readBts)
                /\ readBts' = readBts + Len(From(c, readBts))
                /\ UNCHANGED npc
    /\ UNCHANGED <<niRest, msgs, agentDone, done, final>>

\* case result := <-done (result.Error == nil)
NiDone ==
    /\ npc = "loop"
    /\ done # <<>>
    /\ done' = <<>>
    /\ final' = Head(done)
    /\ LET c == Head(done)
       IN  IF Len(c) < readBts
           THEN /\ npc' = "error"
                /\ UNCHANGED stdout
           ELSE /\ stdout' = stdout \o From(c, readBts)
                /\ npc' = "returned"
    /\ UNCHANGED <<niRest, msgs, agentDone, messageEvents, readBts>>

InitNi ==
    /\ McpStarted
    /\ CallInit
    /\ PermInit(FALSE, FALSE, {}, <<>>)

NextNi ==
    \/ AgentTurn
    \/ AgentAppend
    \/ AgentFinish
    \/ NiEvent
    \/ NiDone

SpecNi == InitNi /\ [][NextNi]_vars

\* C27: RunNonInteractive never panics: whenever the count of bytes already
\* printed exceeds the length of the content being processed, in the
\* message-event branch as in the final-result branch, it returns an error
\* instead of indexing past the content.
C27_NoPanic == npc # "panic"

\* C28: in a non-interactive run that completes without error, standard output
\* holds the assistant's text exactly once: the bytes printed from message
\* events plus the remainder printed with the final result equal the content of
\* the final assistant message.
C28_StdoutOnce == npc = "returned" => stdout = final


\* C30: in every reachable state, a server whose recorded state is Connected has
\* a client in the client table that has not been closed; through startup (a
\* failed tool listing included), restarts and shutdown.
C30_ConnectedHasClient ==
    \A s \in Servers :
       mcpStates[s] = MCPStateConnected
          => (mcpClients[s] # Nil /\ mcpClients[s] \in live)

\* C31: an invocation of runTool that finds the server's recorded state Error
\* while no restart of that server is in progress, or finds no cached client,
\* goes into restartMCPClient before it calls the tool.
C31_RestartBeforeCall ==
    [][\A c \in Callers :
          (/\ pc[c] = "runTool" /\ pc'[c] # "runTool"
           /\ \/ mcpClients[srv[c]] = Nil
              \/ /\ mcpStates[srv[c]] = MCPStateError
                 /\ \A d \in Callers :
                       srv[d] = srv[c] =>
                          (~InRestart(d) /\ pc[d] \notin {"r_getlock", "r_newlock", "r_lock"}))
             => pc'[c] \in {"r_getlock", "return"}]_vars

\* C32: for each server at most one client that was created and not closed exists
\* at any time, and once no restart of the server is running the only such client
\* is the one in the client table.
C32_OneLiveClient ==
    \A s \in Servers :
       /\ Cardinality({k \in live : k[1] = s}) <= 1
       /\ (\A d \in Callers :
              srv[d] = s => (~InRestart(d) /\ pc[d] \notin {"r_getlock", "r_newlock", "r_lock"}))
             => {k \in live : k[1] = s} \subseteq {mcpClients[s]}

\* C33: a restart mutex that is locked is locked by a caller inside the restart
\* steps of restartMCPClient, and a caller whose tool call is in flight refers to
\* no mutex: a caller waiting for the mutex of a server waits for a restart only,
\* never for a tool call.
C33_LockOnlyInRestart ==
    /\ \A l \in lockHeld : \E d \in Callers : InRestart(d) /\ myLock[d] = l
    /\ \A c \in Callers : pc[c] \in {"call1", "call2"} => myLock[c] = Nil

\* the retried call of one caller is in flight while another caller has locked
\* the mutex that the first one created, and restarts the same server
C33_Witness ==
    \E c, d \in Callers :
       /\ c # d /\ srv[c] = srv[d]
       /\ pc[c] = "call2"
       /\ pc[d] = "r_take"
       /\ myLock[d] = <<srv[c], c>>
       /\ myLock[d] \in lockHeld

\* the return statements of runTool: the tool response and the error value
RunToolResults == {"parse_error", "unavailable", "error", "ok"}

runToolReturn(c) ==
    CASE result[c] = "parse_error" ->
            [IsError |-> TRUE, Content |-> <<"error parsing parameters: ">>, error |-> Nil]
      [] result[c] = "unavailable" ->
            [IsError |-> TRUE,
             Content |-> <<"mcp '", srv[c], "' not available: ">> \o err[c], error |-> Nil]
      [] result[c] = "error" ->
            [IsError |-> TRUE, Content |-> err[c], error |-> Nil]
      [] result[c] = "ok" ->
            [IsError |-> FALSE, Content |-> <<>>, error |-> Nil]

\* C34: runTool returns a nil error on every path; a parse failure, an unavailable
\* server, a failed restart and a failed call are error tool responses; when the
\* restart after a transient call error fails, the response text is the call's
\* error followed by "; restart failed: " and the restart's error.
C34_ErrorsAsResponses ==
    \A c \in Callers :
       (pc[c] = "return" /\ result[c] \in RunToolResults) =>
          /\ runToolReturn(c).error = Nil
          /\ runToolReturn(c).IsError = (result[c] # "ok")
          /\ (result[c] = "error" /\ phase[c] = 2 /\ nCalls[c] = 1) =>
                \E e \in CallErrs, rerr \in StartErrs :
                   /\ isTransientTransportError(e)
                   /\ runToolReturn(c).Content = e \o <<"; restart failed: ">> \o rerr
          /\ (result[c] = "error" /\ nCalls[c] = 2) => runToolReturn(c).Content \in CallErrs
          /\ (result[c] = "unavailable") =>
                \E rerr \in StartErrs :
                   runToolReturn(c).Content = <<"mcp '", srv[c], "' not available: ">> \o rerr

\* a call failed with EOF, the restart that followed failed, and runTool is at
\* its return with the composed error
C34_Witness ==
    \E c \in Callers :
       /\ pc[c] = "return" /\ result[c] = "error" /\ phase[c] = 2 /\ nCalls[c] = 1
       /\ err[c] = ErrEOF \o <<"; restart failed: ">> \o ErrDeadline

\* C35: once the events context is cancelled every forwarder returns, also one
\* that holds a message for a full UI channel; the wait on the forwarders' wait
\* group is over exactly when all of them have returned, and Shutdown goes on to
\* invoke every remaining cleanup function and returns.
C35_ShutdownTerminates ==
    /\ [](fwdRunning = (fwdExited # Topics))
    /\ [](fwdExited # {} => eventsCancelled)
    /\ [][eventsCancelled => eventsCancelled']_vars
    /\ []<>(eventsCancelled => fwdExited = Topics)
    /\ [][spc # "idle" => spc' # "idle"]_vars
    /\ []<>(spc # "idle" => (spc = "done" /\ invoked = cleanupFuncs))

\* Shutdown has returned after three cleanups; the UI channel is still full and a
\* forwarder returned with a message in its hand
C35_Witness ==
    /\ spc = "done" /\ Len(invoked) = 3
    /\ fwdExited = Topics
    /\ Len(events) = UiCap
    /\ \E tp \in Topics : msg[tp] # Nil

\* the Close that found the shell started has returned
CloseReturned == ~started /\ \A k \in Closers : kpc[k] \in {"idle", "returned"}

\* C36: once Close() has returned and the shell process has exited, pumpOutput,
\* wait and forwardSignals all return in the end, whether the terminal goes on
\* reading Output() or not.
C36_GoroutinesEnd ==
    (CloseReturned /\ procExited)
       ~> (ppc = "returned" /\ wpc = "returned" /\ fpc = "returned")

\* C37: when NewPTYShellContext has returned the context's error and its
\* goroutine is over, a shell process started by the call has been closed.
C37_NoOrphanShell ==
    (cret = <<"ctx">> /\ goPc = "returned" /\ spawned) => ~started

\* C38: after a startup with YOLO and auto-confirm off, whenever both are off
\* again the allow-list is the one of startup: the tools of
\* permissions.allowed_tools are allowed without a prompt.
C38_TogglesRestore ==
    (~skip /\ cfgConfirmAgentExec # <<FALSE>>) => allowedTools = StartupAllowed

\* ---------------------------------------------------------------------------
\* The selection of a model in the TUI
\* ---------------------------------------------------------------------------

\* what the handler of ModelSelectedMsg and the Runs of the agent leave alone
selRest ==
    <<core, uiVars, obsVars, fanVars, ptyVars, tuiStarted, spc, agentCancelled, lspDown,
      invoked, taskVars, authVars, inputVars, confVars, modeVars, niVars, drainVars,
      sigVars, newVars>>

\* agent.IsBusy: at least one Run is active
IsBusy == activeRequests > 0

\* Config.UpdatePreferredModel(mt, m): c.Models[mt] = m, then SetConfigField of
\* models.<mt>; fails: the write of the data file returns an error
UpdatePreferredModel(mt, m, fails) ==
    /\ cfgModels' = [cfgModels EXCEPT ![mt] = m]
    /\ fileModels' = IF fails THEN fileModels ELSE [fileModels EXCEPT ![mt] = m]

\* the case models.ModelSelectedMsg of appModel.Update; initFails: with no agent
\* yet, both calls of InitCoderAgent return an error
ModelSelectedMsg(mt, m, fails, initFails) ==
    /\ nSelects < MaxSelects
    /\ nSelects' = nSelects + 1
    /\ UpdatePreferredModel(mt, m, fails)
    /\ LET created == ~coderAgent /\ ~initFails
       IN  /\ coderAgent' = (coderAgent \/ created)
           /\ cleanupFuncs' = IF created THEN Append(cleanupFuncs, "mcp") ELSE cleanupFuncs
           /\ IF ~coderAgent /\ initFails
                THEN selReport' = "error" /\ agentModel' = agentModel
              ELSE IF coderAgent /\ IsBusy
                THEN selReport' = "warn" /\ agentModel' = agentModel
              ELSE selReport' = "info" /\ agentModel' = cfgModels'
    /\ UNCHANGED <<activeRequests, selRest>>

\* a Run of the coder agent starts
AgentRunStart ==
    /\ coderAgent
    /\ activeRequests < MaxActive
    /\ activeRequests' = activeRequests + 1
    /\ UNCHANGED <<cfgModels, fileModels, agentModel, selReport, nSelects, regVars, selRest>>

\* a Run of the coder agent ends
AgentRunEnd ==
    /\ activeRequests > 0
    /\ activeRequests' = activeRequests - 1
    /\ UNCHANGED <<cfgModels, fileModels, agentModel, selReport, nSelects, regVars, selRest>>

NextModel ==
    \/ \E mt \in ModelTypes, m \in ModelNames, fails \in BOOLEAN, initFails \in BOOLEAN :
          ModelSelectedMsg(mt, m, fails, initFails)
    \/ AgentRunStart
    \/ AgentRunEnd

SpecModel == InitShutdown /\ [][NextModel]_vars

\* C39: a model selected while the agent is busy is rejected with a warning and
\* changes nothing: the preferred models in memory and in the config data file and
\* the models bound to the agent are what they were before the selection.
C39_BusySelectionNoChange ==
    [][(nSelects' = nSelects + 1 /\ coderAgent /\ IsBusy)
         => /\ selReport' = "warn"
            /\ cfgModels' = cfgModels
            /\ fileModels' = fileModels
            /\ agentModel' = agentModel]_vars

\* C40: AccessToken never returns an empty access token together with a nil
\* error: with no stored record for the provider, or a record whose type is not
\* oauth, the caller receives an error; and a refresh that fails returns an error
\* and leaves the stored record as it was.
C40_NoEmptyTokenWithNilError ==
    /\ [](apc["tok"] = "returned" => (ret.ok => ret.access # ""))
    /\ [][(apc["tok"] = "http" /\ apc'["tok"] = "returned")
            => (~ret'.ok /\ authFile' = authFile)]_vars

====
